---- MODULE Spec2Model ----
(***************************************************************************)
(* Model of the saasfactory `create` wizard: the state machine of          *)
(* src/src/cli/index.ts (the while loop over wizardState), the prompt      *)
(* primitives it calls (src/unnamed/part_009, prompts.ts) and the context  *)
(* it builds (src/unnamed/part_006, context.ts).                           *)
(***************************************************************************)
EXTENDS Integers, Sequences, FiniteSets, TLC

VARIABLES
  \* command line of `create [name]` and the availability probe
  nameArg, claudeAvailable, optYes, optSkipAi,
  \* locals of the create action
  wizardState, aiContentGenerated, projectName, description, context,
  brandingAnswers, ideaMode, discoverySector, roughIdea, discoveredIdeas,
  selectedIdea, projectPath, suggestedNames, foundCompetitors,
  projectAnalysis, projectConfig,
  \* position of the create action: in the loop, returned, after the loop
  pc,
  \* observers (history of the run, never read by the handlers)
  last, nameEnteredFrom, ideaConfirmed, aiCalls, summaryBacks, backs, invoked,
  trail,
  \* the prompt layer (prompts.ts): the clock, the time of the last ESC, the
  \* prompt that is open, and observers of the last checkEscForBack call
  now, lastEscTime, prompt, escTotal, lastCheck,
  \* the streaming task runner (claude-cli.ts): the time since the spawn, the
  \* promise of the call, the subprocess, the two timers, the caller, and
  \* the locals of the call that follow the subprocess's output
  runClock, call, child, timers, discovery, stream,
  \* the process manager (process-manager.ts) and the signal handlers of
  \* prompts.ts: the registry, the subprocesses, the two initialization flags,
  \* the listeners installed on process and process.stdin, the pending
  \* force-kill timers and the clock, and the CLI process itself
  activeProcesses, kids, cleanupRegistered, signalHandlersSetup, listeners,
  graceTimers, procClock, cli,
  \* observers of the process layer: the calls of the two setup functions, and
  \* the subprocesses found alive in the registry when a force-kill timer fired
  setupCalls, graceSwept,
  \* observer of the materializer: its calls, its result, the errors printed
  materializer,
  \* a call of withRetry (utils/errors.ts): its options, the locals of its
  \* loop, and observers of the calls of fn and of the delays slept
  retry

optVars  == <<nameArg, claudeAvailable, optYes, optSkipAi>>
discVars == <<discoverySector, roughIdea, discoveredIdeas, selectedIdea>>
sugVars  == <<suggestedNames, foundCompetitors>>
cfgVars  == <<projectAnalysis, projectConfig>>
cntVars  == <<aiCalls, summaryBacks>>
escVars  == <<now, lastEscTime, prompt, escTotal, lastCheck>>
runVars  == <<runClock, call, child, timers, discovery, stream>>
mgrVars  == <<activeProcesses, kids, cleanupRegistered, signalHandlersSetup,
              listeners, graceTimers, procClock, setupCalls, graceSwept>>
procVars == <<mgrVars, cli>>
vars == <<nameArg, claudeAvailable, optYes, optSkipAi,
          wizardState, aiContentGenerated, projectName, description, context,
          brandingAnswers, ideaMode, discoverySector, roughIdea, discoveredIdeas,
          selectedIdea, projectPath, suggestedNames, foundCompetitors,
          projectAnalysis, projectConfig, pc,
          last, nameEnteredFrom, ideaConfirmed, aiCalls, summaryBacks, backs,
          invoked, trail,
          now, lastEscTime, prompt, escTotal, lastCheck,
          runClock, call, child, timers, discovery, stream,
          activeProcesses, kids, cleanupRegistered, signalHandlersSetup,
          listeners, graceTimers, procClock, cli, setupCalls, graceSwept,
          materializer, retry>>

-----------------------------------------------------------------------------
(* Bounds of the model *)

\* BACK outcomes (double-ESC gestures that a prompt returns) in one run
MaxBacks == 3

\* ESC key presses in one run of the prompt layer
MaxEscs == 4

\* stream events (stdout chunks) the subprocess emits in one call
MaxStreamEvents == 2

\* calls of setupSignalHandlers, and of registerCleanupHandlers, in one process
MaxSetupCalls == 2

\* the largest maxRetries option passed to withRetry
MaxRetries == 3

-----------------------------------------------------------------------------
(* Values *)

WizardState ==
  {"idea_mode", "discovery_sector", "discovery_rough_idea", "discovery_research",
   "discovery_results", "discovery_select", "discovery_confirm", "name",
   "description", "idea_refinement", "name_research", "project_config",
   "branding", "ai_content", "summary", "project_location", "generate"}

IdeaMode == {"has_idea", "discover", "validate"}

\* the Symbol returned by a prompt for "go back"; a prompt result is either
\* this or a value
GO_BACK_SECTION == [kind |-> "GO_BACK_SECTION"]

Value(v) == [kind |-> "value", value |-> v]

\* null / undefined of a record-valued local
Null == [kind |-> "null"]

\* project names are sequences of characters, so that sanitizing is computed
AcmeApp  == <<"a", "c", "m", "e", "-", "a", "p", "p">>
MyApp    == <<"M", "y", " ", "A", "p", "p", "!">>
DevKit   == <<"D", "e", "v", " ", "K", "i", "t">>
Waitlist == <<"W", "a", "i", "t", "l", "i", "s", "t", "K", "i", "t">>
Invoicer == <<"I", "n", "v", "o", "i", "c", "e", "r">>
FeedbackDrop == <<"F", "e", "e", "d", "b", "a", "c", "k", "D", "r", "o", "p">>

UpperCase == <<"A", "B", "C", "D", "E", "F", "G", "H", "I", "J", "K", "L", "M",
               "N", "O", "P", "Q", "R", "S", "T", "U", "V", "W", "X", "Y", "Z">>
LowerCase == <<"a", "b", "c", "d", "e", "f", "g", "h", "i", "j", "k", "l", "m",
               "n", "o", "p", "q", "r", "s", "t", "u", "v", "w", "x", "y", "z">>
Digits == {"0", "1", "2", "3", "4", "5", "6", "7", "8", "9"}

\* String.prototype.toLowerCase, one character
ToLowerChar(c) ==
  IF \E i \in DOMAIN UpperCase : UpperCase[i] = c
  THEN LowerCase[CHOOSE i \in DOMAIN UpperCase : UpperCase[i] = c]
  ELSE c

ToLowerCase(s) == [i \in DOMAIN s |-> ToLowerChar(s[i])]

\* the character class [a-z0-9]
IsAlnum(c) == c \in Digits \/ \E i \in DOMAIN LowerCase : LowerCase[i] = c

RECURSIVE SkipWhile(_, _)
\* s without its longest prefix of dashes (dash) or of characters outside
\* [a-z0-9] (~dash): the rest of a run matched by -+ or by [^a-z0-9]+
SkipWhile(s, dash) ==
  IF s = <<>> THEN <<>>
  ELSE IF (dash /\ Head(s) = "-") \/ (~dash /\ ~IsAlnum(Head(s)))
       THEN SkipWhile(Tail(s), dash)
       ELSE s

RECURSIVE ReplaceNonAlnumRuns(_)
\* .replace(/[^a-z0-9]+/g, '-')
ReplaceNonAlnumRuns(s) ==
  IF s = <<>> THEN <<>>
  ELSE IF IsAlnum(Head(s))
       THEN <<Head(s)>> \o ReplaceNonAlnumRuns(Tail(s))
       ELSE <<"-">> \o ReplaceNonAlnumRuns(SkipWhile(Tail(s), FALSE))

RECURSIVE ReplaceDashRuns(_)
\* .replace(/-+/g, '-')
ReplaceDashRuns(s) ==
  IF s = <<>> THEN <<>>
  ELSE IF Head(s) = "-"
       THEN <<"-">> \o ReplaceDashRuns(SkipWhile(Tail(s), TRUE))
       ELSE <<Head(s)>> \o ReplaceDashRuns(Tail(s))

\* .replace(/^-|-$/g, ''): one leading and one trailing dash
TrimDash(s) ==
  LET t == IF s # <<>> /\ Head(s) = "-" THEN Tail(s) ELSE s
  IN  IF t # <<>> /\ t[Len(t)] = "-" THEN SubSeq(t, 1, Len(t) - 1) ELSE t

sanitizeProjectName(value) ==
  TrimDash(ReplaceDashRuns(ReplaceNonAlnumRuns(ToLowerCase(value))))

\* the inline slug of discovery_confirm
IdeaSlug(name) == TrimDash(ReplaceNonAlnumRuns(ToLowerCase(name)))

-----------------------------------------------------------------------------
(* Ideas returned by discovery (SaasIdea), by id *)

IdeaIds == {"fallback-1", "fallback-2", "idea-1"}

IdeaName(id) ==
  CASE id = "fallback-1" -> Waitlist
    [] id = "fallback-2" -> FeedbackDrop
    [] id = "idea-1"     -> DevKit

IdeaDescription(id) ==
  CASE id = "fallback-1" -> "waitlist builder"
    [] id = "fallback-2" -> "feedback widget"
    [] id = "idea-1"     -> "sdk for makers"

\* keywords found in targetAudience.join(' ').toLowerCase()
IdeaAudience(id) ==
  CASE id = "fallback-1" -> {}
    [] id = "fallback-2" -> {"developer", "team", "maker"}
    [] id = "idea-1"     -> {"developer", "maker"}

IdeaIncomeModel(id) ==
  CASE id = "fallback-1" -> "freemium"
    [] id = "fallback-2" -> "freemium"
    [] id = "idea-1"     -> "subscription"

createFallbackIdeas == <<"fallback-1", "fallback-2">>

Range(s) == {s[i] : i \in DOMAIN s}

-----------------------------------------------------------------------------
(* ProjectContext *)

createDefaultContext(name, desc) ==
  [name |-> name, description |-> desc, discoveredIdea |-> "null",
   saasType |-> "b2b", pricingType |-> "freemium", domain |-> "undefined",
   tagline |-> "", heroHeadline |-> ""]

\* the saasType guessed from the idea's target audience, on top of ctx
AudienceSaasType(ctx, id) ==
  IF IdeaAudience(id) \cap {"business", "team", "enterprise"} # {}
  THEN "b2b"
  ELSE IF IdeaAudience(id) \cap {"developer", "maker"} # {}
       THEN "tool"
       ELSE ctx.saasType

\* the pricing type taken from the idea's income model, on top of ctx
IncomePricingType(ctx, id) ==
  IF IdeaIncomeModel(id) \in {"subscription", "freemium", "one-time"}
  THEN IdeaIncomeModel(id)
  ELSE ctx.pricingType

\* context.discoveredIdea = selectedIdea and the two derived fields
WithDiscoveredIdea(ctx, id) ==
  [ctx EXCEPT !.discoveredIdea = id,
              !.saasType = AudienceSaasType(ctx, id),
              !.pricingType = IncomePricingType(ctx, id)]

-----------------------------------------------------------------------------
(* Prompt primitives: the set of results a call can return *)

\* GO_BACK_SECTION, for a prompt called with canGoBack (while the run has
\* BACK outcomes left to explore)
Back(canGoBack) ==
  IF canGoBack /\ backs < MaxBacks THEN {GO_BACK_SECTION} ELSE {}

UserNames ==  {MyApp}
UserDescriptions == {"manual idea"}
UserSectors == {}
UserRoughIdeas == {"rough idea"}
UserBranding == {[domain |-> "acme", tagline |-> "ship faster"]}
PricingOptions == {"subscription"}

promptIdeaMode(canGoBack) == {Value(m) : m \in IdeaMode} \cup Back(canGoBack)

promptRoughIdea(canGoBack) ==
  {Value(r) : r \in UserRoughIdeas} \cup Back(canGoBack)

promptSectorFocus(canGoBack) ==
  {Value(s) : s \in UserSectors \cup {"null"}} \cup Back(canGoBack)

promptIdeaSelection(ideas, canGoBack) ==
  {Value(i) : i \in Range(ideas) \cup {"more", "sector"}} \cup Back(canGoBack)

promptIdeaConfirmation(idea, canGoBack) ==
  {Value(b) : b \in BOOLEAN} \cup Back(canGoBack)

\* a pick among the suggestions, or typed text (the initial value or the
\* user's own) that passes the validation; always sanitized
promptName(suggested, canGoBack, initialValue) ==
  LET typed == {n \in UserNames \cup {initialValue} : sanitizeProjectName(n) # <<>>}
  IN  {Value(sanitizeProjectName(n)) : n \in Range(suggested) \cup typed}
        \cup Back(canGoBack)

promptDescription(canGoBack, initialValue) ==
  {Value(d) : d \in (UserDescriptions \cup {initialValue}) \ {""}}
    \cup Back(canGoBack)

promptIdeaRefinement(refinedIdeas, originalIdea, canGoBack) ==
  {Value([type |-> "selected", text |-> v]) : v \in Range(refinedIdeas)}
    \cup {Value([type |-> "custom", text |-> t]) : t \in UserDescriptions}
    \cup {Value([type |-> "skip", text |-> ""])}
    \cup Back(canGoBack)

promptProjectConfig(analysis, canGoBack) ==
  {Value([projectType |-> analysis.projectType, pricing |-> p]) : p \in PricingOptions}
    \cup Back(canGoBack)

promptBranding(canGoBack) == {Value(b) : b \in UserBranding} \cup Back(canGoBack)

promptConfirm(canGoBack) == {Value(b) : b \in BOOLEAN} \cup Back(canGoBack)

promptProjectLocation(name, canGoBack) ==
  {Value([base |-> "cwd", name |-> name]), Value([base |-> "custom", name |-> <<>>])}
    \cup Back(canGoBack)

-----------------------------------------------------------------------------
(* AI helpers: the set of results a call can return.  Each helper probes   *)
(* isClaudeCodeAvailable() itself and falls back when the CLI is missing,  *)
(* when the call throws and when the answer does not parse.                *)

\* the ideas parsed from the assistant's answer
AiIdeas == <<"idea-1">>

discoverSaasIdeas(available) ==
  {[ideas |-> createFallbackIdeas, isFallback |-> TRUE]}
    \cup (IF available
          THEN {[ideas |-> AiIdeas, isFallback |-> FALSE]}
          ELSE {})

refineIdea(available) ==
  {[success |-> FALSE, versions |-> <<>>]}
    \cup (IF available
          THEN {[success |-> TRUE, versions |-> <<"refined idea">>]}
          ELSE {})

suggestProjectNames(available) ==
  {[success |-> FALSE, competitors |-> <<>>, suggestedNames |-> <<>>]}
    \cup (IF available
          THEN {[success |-> TRUE, competitors |-> <<"rival">>,
                 suggestedNames |-> <<Invoicer>>],
                [success |-> TRUE, competitors |-> <<>>, suggestedNames |-> <<>>]}
          ELSE {})

\* `of` is the description the analysis was computed from
analyzeProject(desc, available) ==
  {[success |-> FALSE, projectType |-> "Web Application", of |-> desc]}
    \cup (IF available
          THEN {[success |-> TRUE, projectType |-> "SaaS", of |-> desc]}
          ELSE {})

\* claudeGenerate(..., {outputFormat: 'json'}) of ai_content: it throws, or
\* it returns text that JSON.parse rejects, or text that parses
claudeGenerate == {"throws", "unparseable", "json"}

-----------------------------------------------------------------------------
(* The prompt layer: double-ESC detection *)

\* if (timeSinceLastEsc < 1000)
EscWindow == 1000

\* Date.now() when the first prompt opens: lastEscTime starts at 0 and the
\* clock counts from the epoch, so the first ESC is never inside the window
EscStart == 2 * EscWindow

\* the clock runs until here
EscEnd == EscStart + 3 * EscWindow

\* the time that passes between two events
EscDeltas == {EscWindow \div 2 - 1, EscWindow \div 2}

\* the states whose handler awaits a prompt
PromptStates ==
  {"idea_mode", "discovery_rough_idea", "discovery_sector", "discovery_select",
   "discovery_confirm", "name", "description", "idea_refinement",
   "project_config", "branding", "summary", "project_location"}

\* the canGoBack argument at the call site: promptIdeaMode() is called
\* without it (default false), every other prompt of the loop with true
CanGoBackAt(state) == state # "idea_mode"

NoCheck == [value |-> "none", action |-> "none", gap |-> 0, before |-> 0, at |-> 0]

ClosedPrompt ==
  [status |-> "closed", at |-> "none", canGoBack |-> FALSE, escs |-> 0,
   result |-> Null]

PromptInit ==
  /\ now = EscStart
  /\ lastEscTime = 0
  /\ prompt = ClosedPrompt
  /\ escTotal = 0
  /\ lastCheck = NoCheck

\* a window that includes its end point
EscClassify_Inclusive(timeSinceLastEsc) ==
  IF timeSinceLastEsc <= EscWindow THEN "back" ELSE "hint"

\* double ESC within 1 second: 'back'; otherwise 'hint'
EscClassify(timeSinceLastEsc) ==
  IF timeSinceLastEsc < EscWindow THEN "back" ELSE "hint"

\* checkEscForBack(value) at time t with lastEscTime = lastT: what it returns
\* and the lastEscTime it leaves
checkEscForBack(isCancel, t, lastT) ==
  IF ~isCancel
  THEN [action |-> "null", lastEscTime |-> lastT]
  ELSE [action |-> EscClassify(t - lastT), lastEscTime |-> t]

\* a prompt that propagates every 'back'
PromptOnBack_Always(canGoBack) == "return"

\* if (escAction === 'back') { if (canGoBack) return GO_BACK_SECTION; continue; }
PromptOnBack(canGoBack) == IF canGoBack THEN "return" ELSE "reask"

-----------------------------------------------------------------------------
(* The streaming task runner: claudeGenerateWithProgress *)

\* options.timeout ?? 120000
DefaultTimeout == 120000

\* discoverSaasIdeas: timeout: 600000
DiscoveryTimeout == 600000

\* setInterval(..., 5000): the periodic status update
StatusInterval == 5000

\* the time that passes between two events of a call
RunStep == DefaultTimeout \div 2

\* the clock of a call runs until here
RunEnd == DiscoveryTimeout + RunStep

NoCall ==
  [status |-> "idle", error |-> "none", detail |-> "", value |-> Null,
   settledAt |-> 0, timeout |-> 0]

NoChild ==
  [status |-> "none", kills |-> 0, honoursKill |-> FALSE, finishes |-> FALSE,
   code |-> "none", events |-> 0]

\* let searchCount = 0; const allSources = []; let finalResult = '';
\* let buffer = ''; let stdout = ''; let stderr = ''; and the events that
\* options.onProgress received: those of the output stream, the number of
\* those of the status timer, and (an observer) the number of those received
\* after the promise had settled
NoStream ==
  [searchCount |-> 0, allSources |-> <<>>, finalResult |-> "",
   buffer |-> <<>>, stdout |-> <<>>, stderr |-> "", progress |-> <<>>,
   statusEvents |-> 0, late |-> 0]

\* URLs that tool results carry: whether new URL() accepts it, whether its
\* host starts with "www.", the rest of the host, and the path
Url(www, domain, path) ==
  [valid |-> TRUE, www |-> www, domain |-> domain, path |-> path]
UrlWwwA == Url(TRUE, "a.com", "/1")
UrlA    == Url(FALSE, "a.com", "/2")
UrlB    == Url(FALSE, "b.org", "/")
UrlBad  == [valid |-> FALSE, www |-> FALSE, domain |-> "", path |-> ""]

\* new URL(url).hostname.replace(/^www\./, ''), or null when URL throws
Hostname(url) == IF url.valid THEN url.domain ELSE "null"

\* urls.map(url => hostname or null).filter(h => h !== null)
Hostnames(urls) ==
  LET mapped == [i \in DOMAIN urls |-> Hostname(urls[i])]
  IN  SelectSeq(mapped, LAMBDA h : h # "null")

\* [...new Set(xs)]: the first occurrence of each element, in order
RECURSIVE Unique(_)
Unique(xs) ==
  IF xs = <<>> THEN <<>>
  ELSE LET front == Unique(SubSeq(xs, 1, Len(xs) - 1))
           x == xs[Len(xs)]
       IN  IF x \in Range(front) THEN front ELSE Append(front, x)

\* the content of a tool_result item: text that JSON.parse reads as an array
\* of {url}, text it reads as something else, text it rejects, or none
Content(kind, urls) == [kind |-> kind, urls |-> urls]
NoContent == Content("none", <<>>)

\* extractDomains: the hostnames of a parsed array as they come; of text that
\* does not parse, the set of the hostnames of the URLs the regex finds
extractDomains(content) ==
  CASE content.kind = "array" -> Hostnames(content.urls)
    [] content.kind = "text"  -> Unique(Hostnames(content.urls))
    [] OTHER -> <<>>

\* one line of the subprocess's output, as JSON.parse reads it
StreamEvent(type, search, structured, content, result) ==
  [type |-> type, search |-> search, structured |-> structured,
   content |-> content, result |-> result]

\* the lines a subprocess writes: a WebSearch invocation, tool results with
\* structured data, with an array as text and with plain text, final answers
\* with and without a result, and a line that is not JSON
StreamLines ==
  {StreamEvent("assistant", TRUE, <<>>, NoContent, ""),
   StreamEvent("user", FALSE, <<UrlWwwA, UrlA, UrlBad>>, NoContent, ""),
   StreamEvent("user", FALSE, <<>>, Content("array", <<UrlA, UrlWwwA>>), ""),
   StreamEvent("user", FALSE, <<UrlBad>>, Content("text", <<UrlB, UrlB, UrlA>>), ""),
   StreamEvent("result", FALSE, <<>>, NoContent, "final answer"),
   StreamEvent("result", FALSE, <<>>, NoContent, ""),
   StreamEvent("noise", FALSE, <<>>, NoContent, "")}

\* what the subprocess writes to stderr
StderrTexts == {"not logged in"}

RunnerIdle ==
  /\ runClock = 0
  /\ call = NoCall
  /\ child = NoChild
  /\ timers = [timeout |-> FALSE, status |-> FALSE]
  /\ discovery = [status |-> "none", error |-> "none"]
  /\ stream = NoStream

-----------------------------------------------------------------------------
(* The process manager and the signal handlers *)

\* setTimeout(..., 500) in killAllProcesses
GracePeriod == 500

\* the time that passes between two events of the process
ProcStep == GracePeriod

\* the clock of the process runs until here
ProcEnd == 2 * GracePeriod

\* the subprocesses that callers of trackProcess spawn
Kids == {"k1", "k2"}

\* the events of process and of process.stdin that get listeners
Events == {"SIGINT", "SIGTERM", "SIGHUP", "exit", "uncaughtException", "data"}

\* a subprocess: not spawned, running, exited, or failed (it emitted 'error'),
\* proc.killed, whether it ends on SIGTERM, the signals sent to it, and (an
\* observer) whether untrackProcess was called for it
NoKid ==
  [status |-> "none", killed |-> FALSE, honoursTerm |-> FALSE, signals |-> {},
   untracked |-> FALSE]

\* a listener that leaves the child in the registry
Delete_Misses(active, k) == active

\* activeProcesses.delete(child)
Delete(active, k) == active \ {k}

\* return activeProcesses.size
getActiveProcessCount == Cardinality(activeProcesses)

NoListeners == [ev \in Events |-> <<>>]

\* the CLI process: running or exited, its exit code, what the listeners of
\* the last Ctrl-C printed or did, whether stdin is a TTY, whether a prompt
\* has it in raw mode, and (an observer) whether a Ctrl-C came after
\* setupSignalHandlers()
FreshCli(isTTY) ==
  [status |-> "running", exitCode |-> "none", notices |-> {},
   isTTY |-> isTTY, prompting |-> FALSE, interrupted |-> FALSE]

\* process.exit(code), and the end of a process whose action returned: no
\* code sets process.exitCode, so the latter ends with 0
Exited(c, code) == [c EXCEPT !.status = "exited", !.exitCode = code]
ProcessEnds(c) == Exited(c, "0")

\* a setup function without its guard
AlreadySetup_Never(flag) == FALSE

\* if (signalHandlersSetup) return;   if (cleanupRegistered) return;
AlreadySetup(flag) == flag

\* emitter.on(ev, h) and emitter.prependListener(ev, h)
On(l, ev, h) == [l EXCEPT ![ev] = Append(@, h)]
Prepend(l, ev, h) == [l EXCEPT ![ev] = <<h>> \o @]

\* setupSignalHandlers after its guard
InstallSignalHandlers(l, isTTY) ==
  LET sigint == On(l, "SIGINT", "exitWithCancel")
  IN  IF isTTY THEN Prepend(sigint, "data", "ctrlC") ELSE sigint

\* registerCleanupHandlers after its guard
InstallCleanupHandlers(l) ==
  On(On(On(On(On(l, "exit", "cleanup"),
              "SIGINT", "cleanup"),
           "SIGTERM", "cleanup"),
        "SIGHUP", "cleanup"),
     "uncaughtException", "uncaught")

\* proc.kill(sig): a running subprocess is sent the signal and proc.killed
\* becomes true; for one that has exited kill() returns false
Kill(kid, sig) ==
  IF kid.status = "running"
  THEN [kid EXCEPT !.signals = @ \cup {sig}, !.killed = TRUE]
  ELSE kid

\* the state that the handlers of a signal change
ProcState == [kids |-> kids, graceTimers |-> graceTimers, cli |-> cli]

GraceTimer(by) == [due |-> procClock + GracePeriod, by |-> by]

\* killAllProcesses: SIGTERM to every tracked process with !proc.killed, and
\* the timer of the SIGKILL
killAllProcesses(ps) ==
  [ps EXCEPT
     !.kids = [k \in Kids |->
                 IF k \in activeProcesses /\ ~ps.kids[k].killed
                 THEN Kill(ps.kids[k], "SIGTERM")
                 ELSE ps.kids[k]],
     !.graceTimers = @ \cup {GraceTimer("killAllProcesses")}]

\* killAllChildProcesses of claude-cli.ts: a graceful signal to every tracked
\* subprocess, then, after the grace period, a forced kill
killAllChildProcesses(ps) ==
  [ps EXCEPT
     !.kids = [k \in Kids |->
                 IF k \in activeProcesses
                 THEN Kill(ps.kids[k], "SIGTERM")
                 ELSE ps.kids[k]],
     !.graceTimers = @ \cup {GraceTimer("killAllChildProcesses")}]

\* the callback of a grace timer: SIGKILL to every tracked process with
\* !proc.killed (killAllProcesses), or to every tracked process
ForceKill(k, by) ==
  IF k \in activeProcesses /\ (by = "killAllChildProcesses" \/ ~kids[k].killed)
  THEN Kill(kids[k], "SIGKILL")
  ELSE kids[k]

\* process.exit(code): the 'exit' listeners (cleanup, which calls
\* killAllProcesses; calling it again changes nothing) run, the process ends,
\* and no timer fires any more
processExit(ps, code) ==
  LET swept == IF listeners["exit"] # <<>> THEN killAllProcesses(ps) ELSE ps
  IN  [swept EXCEPT !.cli = Exited(@, code)]

\* exitWithCancel: killAllChildProcesses(); p.outro('Cancelled'); process.exit(0)
exitWithCancel(ps) ==
  processExit([killAllChildProcesses(ps) EXCEPT
                 !.cli.notices = @ \cup {"Cancelled"}],
              "0")

\* one listener: exitWithCancel (also behind the stdin listener, for the byte
\* 0x03), cleanup, the uncaughtException listener, or the prompt library's own
Handle(h, ps) ==
  CASE h \in {"exitWithCancel", "ctrlC"} -> exitWithCancel(ps)
    [] h = "cleanup" -> killAllProcesses(ps)
    [] h = "uncaught" -> processExit(killAllProcesses(ps), "1")
    [] OTHER -> [ps EXCEPT !.cli.notices = @ \cup {"prompt cancelled"}]

\* emit: the listeners of an event in their order, while the process lives
RECURSIVE Dispatch(_, _)
Dispatch(handlers, ps) ==
  IF handlers = <<>> \/ ps.cli.status = "exited" THEN ps
  ELSE Dispatch(Tail(handlers), Handle(Head(handlers), ps))

\* a signal: its listeners, or without any the default action, which ends
\* the process
Deliver(sig, ps) ==
  IF listeners[sig] = <<>>
  THEN [ps EXCEPT !.cli = Exited(@, sig)]
  ELSE Dispatch(listeners[sig], ps)

\* a process that has run nothing yet
ProcFresh ==
  /\ activeProcesses = {}
  /\ kids = [k \in Kids |-> NoKid]
  /\ cleanupRegistered = FALSE
  /\ signalHandlersSetup = FALSE
  /\ listeners = NoListeners
  /\ graceTimers = {}
  /\ procClock = 0
  /\ setupCalls = [signal |-> 0, cleanup |-> 0]
  /\ graceSwept = {}
  /\ cli \in {FreshCli(isTTY) : isTTY \in BOOLEAN}

\* the process at the start of the wizard: the create action has called
\* setupSignalHandlers(), on a terminal
ProcCreate ==
  /\ activeProcesses = {}
  /\ kids = [k \in Kids |-> NoKid]
  /\ cleanupRegistered = FALSE
  /\ signalHandlersSetup = TRUE
  /\ listeners = InstallSignalHandlers(NoListeners, TRUE)
  /\ graceTimers = {}
  /\ procClock = 0
  /\ setupCalls = [signal |-> 1, cleanup |-> 0]
  /\ graceSwept = {}
  /\ cli = FreshCli(TRUE)

\* the result of generate(context, path): the materializer is not called yet
NoMaterializer == [calls |-> 0, result |-> Null, reported |-> <<>>]

-----------------------------------------------------------------------------
(* withRetry: retry an async operation with exponential backoff *)

\* initialDelayMs = 1000
InitialDelayMs == 1000

\* maxDelayMs = 10000
MaxDelayMs == 10000

\* the error thrown by the n-th call of fn; kind is what shouldRetry looks at
Failure(n, kind) == [call |-> n, kind |-> kind]
NoFailure == Failure(0, "none")

\* the promise of withRetry: pending, resolved with the value of the n-th
\* call of fn, or rejected with an error
Pending == [settled |-> "pending", call |-> 0, error |-> NoFailure]
Returned(n) == [settled |-> "resolved", call |-> n, error |-> NoFailure]
Thrown(err) == [settled |-> "rejected", call |-> 0, error |-> err]

\* the shouldRetry options: the default () => true, the test's () => false,
\* and a predicate that tells errors apart
ShouldRetryOptions == {"always", "never", "transient"}

shouldRetry(option, error) ==
  CASE option = "always" -> TRUE
    [] option = "never" -> FALSE
    [] option = "transient" -> error.kind = "transient"

\* no call of withRetry
NoRetry ==
  [at |-> "idle", maxRetries |-> 0, maxDelayMs |-> 0, shouldRetry |-> "always",
   attempt |-> 0, delay |-> 0, lastError |-> NoFailure, promise |-> Pending,
   calls |-> 0, failures |-> 0, slept |-> <<>>]

\* withRetry(fn, options) up to the first test of the loop condition
RetryCall(maxRetries, initialDelayMs, maxDelayMs, option) ==
  [NoRetry EXCEPT !.at = "loop", !.maxRetries = maxRetries,
                  !.maxDelayMs = maxDelayMs, !.shouldRetry = option,
                  !.delay = initialDelayMs]

RetryIdle == retry = NoRetry

\* a catch block that gives up one attempt early
GivesUp_OffByOne(attempt, maxRetries, again) ==
  attempt + 1 >= maxRetries \/ ~again

\* a catch block that does not ask shouldRetry
GivesUp_IgnoresShouldRetry(attempt, maxRetries, again) ==
  attempt = maxRetries

\* if (attempt === maxRetries || !shouldRetry(error)) throw error;
GivesUp(attempt, maxRetries, again) ==
  attempt = maxRetries \/ ~again

\* a loop that calls fn again after a success
OnSuccess_CallsAgain(r) ==
  [r EXCEPT !.calls = @ + 1,
            !.at = IF r.attempt = r.maxRetries THEN "done" ELSE "loop",
            !.attempt = @ + 1,
            !.promise = IF r.attempt = r.maxRetries
                        THEN Returned(r.calls + 1) ELSE @]

\* return await fn();  (fn resolves)
OnSuccess(r) ==
  [r EXCEPT !.calls = @ + 1, !.at = "done", !.promise = Returned(r.calls + 1)]

\* catch (error) { lastError = error; if (...) throw error; await delay }
OnFailure(r, kind) ==
  LET err == Failure(r.calls + 1, kind)
      failed == [r EXCEPT !.calls = @ + 1, !.failures = @ + 1, !.lastError = err]
  IN IF GivesUp(r.attempt, r.maxRetries, shouldRetry(r.shouldRetry, err))
     THEN [failed EXCEPT !.at = "done", !.promise = Thrown(err)]
     ELSE [failed EXCEPT !.at = "sleeping"]

\* delay = Math.min(delay * 2, maxDelayMs)
NextDelay(delay, maxDelayMs) ==
  IF delay * 2 <= maxDelayMs THEN delay * 2 ELSE maxDelayMs

\* the timer of the delay fires: the delay doubles, attempt++, and the loop
\* condition attempt <= maxRetries is tested; after the loop, throw lastError
AfterDelay(r) ==
  LET next == [r EXCEPT !.slept = Append(@, r.delay),
                        !.delay = NextDelay(r.delay, r.maxDelayMs),
                        !.attempt = @ + 1]
  IN IF next.attempt <= next.maxRetries
     THEN [next EXCEPT !.at = "loop"]
     ELSE [next EXCEPT !.at = "done", !.promise = Thrown(next.lastError)]

-----------------------------------------------------------------------------
(* The create action: start *)

\* what the handler of state `at` did last: its prompt's outcome, whether it
\* invoked the external AI task, the handler that ran before it, and on BACK
\* the answers held before the step
Step(at, outcome, ai) ==
  [at |-> at, outcome |-> outcome, aiCalled |-> ai, prev |-> last.at,
   snap |-> IF outcome = "BACK"
            THEN <<projectName, description, projectConfig, brandingAnswers>>
            ELSE <<>>]

\* outcomes of a handler that move the wizard forward
ForwardOutcomes == {"advance", "fallback", "skip"}

\* the states entered so far by a run all of whose steps moved forward, in
\* order; empty once a step did not
Trail(outcome, next) ==
  IF trail # <<>> /\ outcome \in ForwardOutcomes
  THEN Append(trail, next)
  ELSE <<>>

\* a start that takes a name argument as the answer of the name state
InitialWizardState_SkipsName(name, available) ==
  IF name # <<>> THEN "project_config"
  ELSE IF available THEN "idea_mode" ELSE "name"

\* let wizardState = name ? 'description' : (claudeAvailable ? 'idea_mode' : 'name')
InitialWizardState(name, available) ==
  IF name # <<>> THEN "description"
  ELSE IF available THEN "idea_mode" ELSE "name"

WizardInit ==
  /\ nameArg \in {<<>>, AcmeApp}
  /\ claudeAvailable \in BOOLEAN
  /\ optYes \in BOOLEAN
  /\ optSkipAi \in BOOLEAN
  /\ wizardState = InitialWizardState(nameArg, claudeAvailable)
  /\ aiContentGenerated = FALSE
  /\ projectName = nameArg
  /\ description = ""
  /\ context = createDefaultContext(<<"t", "e", "m", "p">>, "")
  /\ brandingAnswers = Null
  /\ ideaMode = "has_idea"
  /\ discoverySector = "null"
  /\ roughIdea = "null"
  /\ discoveredIdeas = <<>>
  /\ selectedIdea = "null"
  /\ projectPath = Null
  /\ suggestedNames = <<>>
  /\ foundCompetitors = <<>>
  /\ projectAnalysis = Null
  /\ projectConfig = Null
  /\ pc = "loop"
  /\ last = [at |-> "start", outcome |-> "none", aiCalled |-> FALSE,
             prev |-> "start", snap |-> <<>>]
  /\ nameEnteredFrom = "none"
  /\ ideaConfirmed = FALSE
  /\ aiCalls = 0
  /\ summaryBacks = 0
  /\ backs = 0
  /\ invoked = {}
  /\ trail = <<wizardState>>
  /\ materializer = NoMaterializer

Init == WizardInit /\ PromptInit /\ RunnerIdle /\ ProcCreate /\ RetryIdle

\* a loop that also stops once the location prompt is due
LoopCondition_StopsEarly(state) == state \notin {"generate", "project_location"}

\* while (wizardState !== 'generate')
LoopCondition(state) == state # "generate"

\* the loop runs and dispatches to the handler of state `at`
InLoop(at) == pc = "loop" /\ LoopCondition(wizardState) /\ wizardState = at

-----------------------------------------------------------------------------
(* The handlers of the discovery path *)

IdeaModeNext(mode) ==
  CASE mode = "has_idea" -> "description"
    [] mode = "discover" -> "discovery_sector"
    [] mode = "validate" -> "discovery_rough_idea"

StateIdeaMode ==
  /\ InLoop("idea_mode")
  /\ \E mode \in promptIdeaMode(FALSE) :
       IF mode = GO_BACK_SECTION
       THEN /\ last' = Step("idea_mode", "BACK", FALSE)
            /\ UNCHANGED <<ideaMode, wizardState>>
       ELSE /\ ideaMode' = mode.value
            /\ wizardState' = IdeaModeNext(mode.value)
            /\ last' = Step("idea_mode", "advance", FALSE)
  /\ backs' = IF last'.outcome = "BACK" THEN backs + 1 ELSE backs
  /\ trail' = Trail(last'.outcome, wizardState')
  /\ UNCHANGED <<escVars, runVars, procVars, materializer>>
  /\ UNCHANGED <<optVars, discVars, sugVars, cfgVars, cntVars, aiContentGenerated,
                 projectName, description, context, brandingAnswers, projectPath,
                 pc, nameEnteredFrom, ideaConfirmed, invoked>>
  /\ UNCHANGED retry

StateDiscoveryRoughIdea ==
  /\ InLoop("discovery_rough_idea")
  /\ \E result \in promptRoughIdea(TRUE) :
       IF result = GO_BACK_SECTION
       THEN /\ wizardState' = "idea_mode"
            /\ last' = Step("discovery_rough_idea", "BACK", FALSE)
            /\ UNCHANGED roughIdea
       ELSE /\ roughIdea' = result.value
            /\ wizardState' = "discovery_sector"
            /\ last' = Step("discovery_rough_idea", "advance", FALSE)
  /\ backs' = IF last'.outcome = "BACK" THEN backs + 1 ELSE backs
  /\ trail' = Trail(last'.outcome, wizardState')
  /\ UNCHANGED <<escVars, runVars, procVars, materializer>>
  /\ UNCHANGED <<optVars, sugVars, cfgVars, cntVars, aiContentGenerated,
                 projectName, description, context, brandingAnswers, projectPath,
                 ideaMode, discoverySector, discoveredIdeas, selectedIdea,
                 pc, nameEnteredFrom, ideaConfirmed, invoked>>
  /\ UNCHANGED retry

DiscoverySectorBack(mode) ==
  IF mode = "validate" THEN "discovery_rough_idea" ELSE "idea_mode"

StateDiscoverySector ==
  /\ InLoop("discovery_sector")
  /\ \E result \in promptSectorFocus(TRUE) :
       IF result = GO_BACK_SECTION
       THEN /\ wizardState' = DiscoverySectorBack(ideaMode)
            /\ last' = Step("discovery_sector", "BACK", FALSE)
            /\ UNCHANGED discoverySector
       ELSE /\ discoverySector' = result.value
            /\ wizardState' = "discovery_research"
            /\ last' = Step("discovery_sector", "advance", FALSE)
  /\ backs' = IF last'.outcome = "BACK" THEN backs + 1 ELSE backs
  /\ trail' = Trail(last'.outcome, wizardState')
  /\ UNCHANGED <<escVars, runVars, procVars, materializer>>
  /\ UNCHANGED <<optVars, sugVars, cfgVars, cntVars, aiContentGenerated,
                 projectName, description, context, brandingAnswers, projectPath,
                 ideaMode, roughIdea, discoveredIdeas, selectedIdea,
                 pc, nameEnteredFrom, ideaConfirmed, invoked>>
  /\ UNCHANGED retry

\* a research step that appends to the list it already has
ResearchIdeas_Append(old, found) == old \o found

\* discoveredIdeas = result.ideas
ResearchIdeas(old, found) == found

\* a research state that runs the discovery again when it fell back
ResearchNext_Retry(isFallback) ==
  IF isFallback THEN "discovery_research" ELSE "discovery_results"

\* wizardState = 'discovery_results', whether or not result.isFallback
ResearchNext(isFallback) == "discovery_results"

\* value || undefined
OrUndefined(value) == IF value \in {"null", ""} THEN "undefined" ELSE value

\* the options that the handler passes to discoverSaasIdeas:
\* { sector: discoverySector || undefined, roughIdea: roughIdea || undefined, ... }
DiscoveryOptions(sector, rough) ==
  [sector |-> OrUndefined(sector), roughIdea |-> OrUndefined(rough)]

StateDiscoveryResearch ==
  /\ InLoop("discovery_research")
  /\ \E result \in discoverSaasIdeas(claudeAvailable) :
       /\ discoveredIdeas' = ResearchIdeas(discoveredIdeas, result.ideas)
       /\ wizardState' = ResearchNext(result.isFallback)
       /\ last' = Step("discovery_research",
                       IF result.isFallback THEN "fallback" ELSE "advance",
                       claudeAvailable)
  /\ backs' = IF last'.outcome = "BACK" THEN backs + 1 ELSE backs
  /\ trail' = Trail(last'.outcome, wizardState')
  /\ UNCHANGED <<escVars, runVars, procVars, materializer>>
  /\ UNCHANGED <<optVars, sugVars, cfgVars, cntVars, aiContentGenerated,
                 projectName, description, context, brandingAnswers, projectPath,
                 ideaMode, discoverySector, roughIdea, selectedIdea,
                 pc, nameEnteredFrom, ideaConfirmed, invoked>>
  /\ UNCHANGED retry

StateDiscoveryResults ==
  /\ InLoop("discovery_results")
  /\ wizardState' = "discovery_select"
  /\ last' = Step("discovery_results", "advance", FALSE)
  /\ backs' = IF last'.outcome = "BACK" THEN backs + 1 ELSE backs
  /\ trail' = Trail(last'.outcome, wizardState')
  /\ UNCHANGED <<escVars, runVars, procVars, materializer>>
  /\ UNCHANGED <<optVars, discVars, sugVars, cfgVars, cntVars, aiContentGenerated,
                 projectName, description, context, brandingAnswers, projectPath,
                 ideaMode, pc, nameEnteredFrom, ideaConfirmed, invoked>>
  /\ UNCHANGED retry

StateDiscoverySelect ==
  /\ InLoop("discovery_select")
  /\ \E selection \in promptIdeaSelection(discoveredIdeas, TRUE) :
       IF selection = GO_BACK_SECTION
       THEN /\ wizardState' = "discovery_sector"
            /\ last' = Step("discovery_select", "BACK", FALSE)
            /\ UNCHANGED selectedIdea
       ELSE IF selection.value = "more"
       THEN /\ wizardState' = "discovery_research"
            /\ last' = Step("discovery_select", "more", FALSE)
            /\ UNCHANGED selectedIdea
       ELSE IF selection.value = "sector"
       THEN /\ wizardState' = "discovery_sector"
            /\ last' = Step("discovery_select", "sector", FALSE)
            /\ UNCHANGED selectedIdea
       ELSE /\ selectedIdea' = selection.value
            /\ wizardState' = "discovery_confirm"
            /\ last' = Step("discovery_select", "advance", FALSE)
  /\ backs' = IF last'.outcome = "BACK" THEN backs + 1 ELSE backs
  /\ trail' = Trail(last'.outcome, wizardState')
  /\ UNCHANGED <<escVars, runVars, procVars, materializer>>
  /\ UNCHANGED <<optVars, sugVars, cfgVars, cntVars, aiContentGenerated,
                 projectName, description, context, brandingAnswers, projectPath,
                 ideaMode, discoverySector, roughIdea, discoveredIdeas,
                 pc, nameEnteredFrom, ideaConfirmed, invoked>>
  /\ UNCHANGED retry

StateDiscoveryConfirm ==
  /\ InLoop("discovery_confirm")
  /\ IF selectedIdea # "null"
     THEN \E confirmed \in promptIdeaConfirmation(selectedIdea, TRUE) :
            IF confirmed = GO_BACK_SECTION
            THEN /\ wizardState' = "discovery_results"
                 /\ last' = Step("discovery_confirm", "BACK", FALSE)
                 /\ UNCHANGED <<projectName, description, context,
                                nameEnteredFrom, ideaConfirmed>>
            ELSE IF ~confirmed.value
            THEN /\ wizardState' = "discovery_select"
                 /\ last' = Step("discovery_confirm", "decline", FALSE)
                 /\ UNCHANGED <<projectName, description, context,
                                nameEnteredFrom, ideaConfirmed>>
            ELSE /\ projectName' = IdeaSlug(IdeaName(selectedIdea))
                 /\ description' = IdeaDescription(selectedIdea)
                 /\ context' = WithDiscoveredIdea(
                                 createDefaultContext(projectName', description'),
                                 selectedIdea)
                 /\ wizardState' = "name"
                 /\ last' = Step("discovery_confirm", "advance", FALSE)
                 /\ nameEnteredFrom' = "discovery_confirm"
                 /\ ideaConfirmed' = TRUE
     ELSE /\ wizardState' = "discovery_select"
          /\ last' = Step("discovery_confirm", "none", FALSE)
          /\ UNCHANGED <<projectName, description, context,
                         nameEnteredFrom, ideaConfirmed>>
  /\ backs' = IF last'.outcome = "BACK" THEN backs + 1 ELSE backs
  /\ trail' = Trail(last'.outcome, wizardState')
  /\ UNCHANGED <<escVars, runVars, procVars, materializer>>
  /\ UNCHANGED <<optVars, discVars, sugVars, cfgVars, cntVars, aiContentGenerated,
                 brandingAnswers, projectPath, ideaMode, pc, invoked>>
  /\ UNCHANGED retry

-----------------------------------------------------------------------------
(* The handlers of the direct path and of the common tail *)

\* a name handler that forgets the discovery flow
NameBackTarget_NoProvenance(mode) == "idea_refinement"

\* the GO_BACK_SECTION branch of STATE name
NameBackTarget(mode) ==
  IF mode = "discover" \/ mode = "validate"
  THEN "discovery_results"
  ELSE "idea_refinement"

\* a name handler that rebuilds the context and drops the selected idea
NameContext_NoRestore(name, desc, idea) == createDefaultContext(name, desc)

\* createDefaultContext, then "restore discovery data" when an idea is selected
NameContext(name, desc, idea) ==
  IF idea # "null"
  THEN WithDiscoveredIdea(createDefaultContext(name, desc), idea)
  ELSE createDefaultContext(name, desc)

StateName ==
  /\ InLoop("name")
  /\ \E result \in promptName(suggestedNames, TRUE, projectName) :
       IF result = GO_BACK_SECTION
       THEN /\ wizardState' = NameBackTarget(ideaMode)
            /\ IF ideaMode = "discover" \/ ideaMode = "validate"
               THEN UNCHANGED sugVars
               ELSE suggestedNames' = <<>> /\ foundCompetitors' = <<>>
            /\ last' = Step("name", "BACK", FALSE)
            /\ UNCHANGED <<projectName, context>>
       ELSE /\ projectName' = result.value
            /\ context' = NameContext(result.value, description, selectedIdea)
            /\ wizardState' = "project_config"
            /\ last' = Step("name", "advance", FALSE)
            /\ UNCHANGED sugVars
  /\ backs' = IF last'.outcome = "BACK" THEN backs + 1 ELSE backs
  /\ trail' = Trail(last'.outcome, wizardState')
  /\ UNCHANGED <<escVars, runVars, procVars, materializer>>
  /\ UNCHANGED <<optVars, discVars, cfgVars, cntVars, aiContentGenerated,
                 description, brandingAnswers, projectPath, ideaMode, pc,
                 nameEnteredFrom, ideaConfirmed, invoked>>
  /\ UNCHANGED retry

\* wizardState = claudeAvailable ? 'idea_refinement' : 'name'
DescriptionNext(available) == IF available THEN "idea_refinement" ELSE "name"

StateDescription ==
  /\ InLoop("description")
  /\ \E result \in promptDescription(TRUE, description) :
       IF result = GO_BACK_SECTION
       THEN /\ wizardState' = "idea_mode"
            /\ last' = Step("description", "BACK", FALSE)
            /\ UNCHANGED <<description, nameEnteredFrom>>
       ELSE /\ description' = result.value
            /\ wizardState' = DescriptionNext(claudeAvailable)
            /\ last' = Step("description", "advance", FALSE)
            /\ nameEnteredFrom' = IF wizardState' = "name" THEN "description"
                                  ELSE nameEnteredFrom
  /\ backs' = IF last'.outcome = "BACK" THEN backs + 1 ELSE backs
  /\ trail' = Trail(last'.outcome, wizardState')
  /\ UNCHANGED <<escVars, runVars, procVars, materializer>>
  /\ UNCHANGED <<optVars, discVars, sugVars, cfgVars, cntVars, aiContentGenerated,
                 projectName, context, brandingAnswers, projectPath, ideaMode, pc,
                 ideaConfirmed, invoked>>
  /\ UNCHANGED retry

\* wizardState = claudeAvailable ? 'name_research' : 'name'
RefinementNext(available) == IF available THEN "name_research" ELSE "name"

StateIdeaRefinement ==
  /\ InLoop("idea_refinement")
  /\ \E result \in refineIdea(claudeAvailable) :
       IF ~result.success
       THEN /\ wizardState' = RefinementNext(claudeAvailable)
            /\ last' = Step("idea_refinement", "fallback", claudeAvailable)
            /\ UNCHANGED description
       ELSE \E selection \in promptIdeaRefinement(result.versions, description, TRUE) :
              IF selection = GO_BACK_SECTION
              THEN /\ wizardState' = "description"
                   /\ last' = Step("idea_refinement", "BACK", claudeAvailable)
                   /\ UNCHANGED description
              ELSE /\ description' = IF selection.value.type = "skip"
                                     THEN description
                                     ELSE selection.value.text
                   /\ wizardState' = RefinementNext(claudeAvailable)
                   /\ last' = Step("idea_refinement", "advance", claudeAvailable)
  /\ nameEnteredFrom' = IF wizardState' = "name" THEN "idea_refinement"
                        ELSE nameEnteredFrom
  /\ backs' = IF last'.outcome = "BACK" THEN backs + 1 ELSE backs
  /\ trail' = Trail(last'.outcome, wizardState')
  /\ UNCHANGED <<escVars, runVars, procVars, materializer>>
  /\ UNCHANGED <<optVars, discVars, sugVars, cfgVars, cntVars, aiContentGenerated,
                 projectName, context, brandingAnswers, projectPath, ideaMode, pc,
                 ideaConfirmed, invoked>>
  /\ UNCHANGED retry

StateNameResearch ==
  /\ InLoop("name_research")
  /\ \E result \in suggestProjectNames(claudeAvailable) :
       /\ suggestedNames' = IF result.success THEN result.suggestedNames ELSE <<>>
       /\ foundCompetitors' = IF result.success THEN result.competitors ELSE <<>>
       /\ last' = Step("name_research",
                       IF result.success THEN "advance" ELSE "fallback",
                       claudeAvailable)
  /\ wizardState' = "name"
  /\ nameEnteredFrom' = "name_research"
  /\ backs' = IF last'.outcome = "BACK" THEN backs + 1 ELSE backs
  /\ trail' = Trail(last'.outcome, wizardState')
  /\ UNCHANGED <<escVars, runVars, procVars, materializer>>
  /\ UNCHANGED <<optVars, discVars, cfgVars, cntVars, aiContentGenerated,
                 projectName, description, context, brandingAnswers, projectPath,
                 ideaMode, pc, ideaConfirmed, invoked>>
  /\ UNCHANGED retry

StateProjectConfig ==
  /\ InLoop("project_config")
  /\ \E analysis \in (IF projectAnalysis = Null
                      THEN analyzeProject(description, claudeAvailable)
                      ELSE {projectAnalysis}) :
       /\ projectAnalysis' = analysis
       /\ \E result \in promptProjectConfig(analysis, TRUE) :
            IF result = GO_BACK_SECTION
            THEN /\ wizardState' = "name"
                 /\ last' = Step("project_config", "BACK",
                                 projectAnalysis = Null /\ claudeAvailable)
                 /\ UNCHANGED <<projectConfig, context>>
            ELSE /\ projectConfig' = result.value
                 /\ context' = [context EXCEPT !.pricingType = result.value.pricing]
                 /\ wizardState' = "branding"
                 /\ last' = Step("project_config", "advance",
                                 projectAnalysis = Null /\ claudeAvailable)
  /\ backs' = IF last'.outcome = "BACK" THEN backs + 1 ELSE backs
  /\ trail' = Trail(last'.outcome, wizardState')
  /\ UNCHANGED <<escVars, runVars, procVars, materializer>>
  /\ UNCHANGED <<optVars, discVars, sugVars, cntVars, aiContentGenerated,
                 projectName, description, brandingAnswers, projectPath, ideaMode,
                 pc, nameEnteredFrom, ideaConfirmed, invoked>>
  /\ UNCHANGED retry

\* context.domain, and context.content.tagline when a tagline was typed
BrandingContext(ctx, answers) ==
  [ctx EXCEPT !.domain = answers.domain,
              !.tagline = IF answers.tagline # "" THEN answers.tagline ELSE @]

\* a branding handler that stores the prompt's result before testing it
BrandingStored_BeforeTest(result, old) ==
  IF result = GO_BACK_SECTION THEN GO_BACK_SECTION ELSE result.value

\* brandingAnswers = result, reached only past the GO_BACK_SECTION test
BrandingStored(result, old) ==
  IF result = GO_BACK_SECTION THEN old ELSE result.value

StateBranding ==
  /\ InLoop("branding")
  /\ \E result \in promptBranding(TRUE) :
       IF result = GO_BACK_SECTION
       THEN /\ wizardState' = "project_config"
            /\ last' = Step("branding", "BACK", FALSE)
            /\ aiCalls' = 0
            /\ summaryBacks' = 0
            /\ brandingAnswers' = BrandingStored(result, brandingAnswers)
            /\ UNCHANGED context
       ELSE /\ brandingAnswers' = BrandingStored(result, brandingAnswers)
            /\ context' = BrandingContext(context, result.value)
            /\ wizardState' = "ai_content"
            /\ last' = Step("branding", "advance", FALSE)
            /\ UNCHANGED cntVars
  /\ backs' = IF last'.outcome = "BACK" THEN backs + 1 ELSE backs
  /\ trail' = Trail(last'.outcome, wizardState')
  /\ UNCHANGED <<escVars, runVars, procVars, materializer>>
  /\ UNCHANGED <<optVars, discVars, sugVars, cfgVars, aiContentGenerated,
                 projectName, description, projectPath, ideaMode, pc,
                 nameEnteredFrom, ideaConfirmed, invoked>>
  /\ UNCHANGED retry

\* if (!aiContentGenerated && claudeAvailable && !options?.skipAi)
AiContentDue(generated, available, skipAi) == ~generated /\ available /\ ~skipAi

\* Object.assign(context.content, parsed)
AssignParsedContent(ctx) ==
  [ctx EXCEPT !.tagline = "ai tagline", !.heroHeadline = "ai headline"]

\* an ai_content that stays for another attempt when the call failed
AiContentNext_Retry(outcome) ==
  IF outcome = "fallback" THEN "ai_content" ELSE "summary"

\* wizardState = 'summary', whatever the call did
AiContentNext(outcome) == "summary"

StateAiContent ==
  /\ InLoop("ai_content")
  /\ IF AiContentDue(aiContentGenerated, claudeAvailable, optSkipAi)
     THEN \E aiContent \in claudeGenerate :
            /\ aiCalls' = aiCalls + 1
            /\ IF aiContent = "json"
               THEN /\ context' = AssignParsedContent(context)
                    /\ aiContentGenerated' = TRUE
                    /\ last' = Step("ai_content", "advance", TRUE)
               ELSE /\ last' = Step("ai_content", "fallback", TRUE)
                    /\ UNCHANGED <<context, aiContentGenerated>>
     ELSE /\ last' = Step("ai_content", "skip", FALSE)
          /\ UNCHANGED <<context, aiContentGenerated, aiCalls>>
  /\ wizardState' = AiContentNext(last'.outcome)
  /\ backs' = IF last'.outcome = "BACK" THEN backs + 1 ELSE backs
  /\ trail' = Trail(last'.outcome, wizardState')
  /\ UNCHANGED <<escVars, runVars, procVars, materializer>>
  /\ UNCHANGED <<optVars, discVars, sugVars, cfgVars, summaryBacks,
                 projectName, description, brandingAnswers, projectPath, ideaMode,
                 pc, nameEnteredFrom, ideaConfirmed, invoked>>
  /\ UNCHANGED retry

\* a summary that goes back without marking the content stale
SummaryBackFlag_Keep(generated) == generated

\* the GO_BACK_SECTION branch of STATE summary: aiContentGenerated = false
SummaryBackFlag(generated) == FALSE

\* a decline that falls out of the if and lets the loop go on
SummaryDeclinePc_Continue == "loop"

\* the decline branch of STATE summary: `return` leaves the create action
SummaryDeclinePc == "cancelled"

StateSummary ==
  /\ InLoop("summary")
  /\ IF ~optYes
     THEN \E confirmed \in promptConfirm(TRUE) :
            /\ IF confirmed = GO_BACK_SECTION
               THEN /\ aiContentGenerated' = SummaryBackFlag(aiContentGenerated)
                    /\ wizardState' = "branding"
                    /\ summaryBacks' = summaryBacks + 1
                    /\ last' = Step("summary", "BACK", FALSE)
                    /\ UNCHANGED pc
               ELSE IF ~confirmed.value
               THEN /\ pc' = SummaryDeclinePc
                    /\ last' = Step("summary", "decline", FALSE)
                    /\ UNCHANGED <<aiContentGenerated, wizardState, summaryBacks>>
               ELSE /\ wizardState' = "project_location"
                    /\ last' = Step("summary", "advance", FALSE)
                    /\ UNCHANGED <<aiContentGenerated, pc, summaryBacks>>
     ELSE /\ wizardState' = "project_location"
          /\ last' = Step("summary", "advance", FALSE)
          /\ UNCHANGED <<aiContentGenerated, pc, summaryBacks>>
  /\ backs' = IF last'.outcome = "BACK" THEN backs + 1 ELSE backs
  /\ trail' = Trail(last'.outcome, wizardState')
  /\ cli' = IF pc' = "cancelled" THEN ProcessEnds(cli) ELSE cli
  /\ UNCHANGED <<escVars, runVars, mgrVars, materializer>>
  /\ UNCHANGED <<optVars, discVars, sugVars, cfgVars, aiCalls,
                 projectName, description, context, brandingAnswers, projectPath,
                 ideaMode, nameEnteredFrom, ideaConfirmed, invoked>>
  /\ UNCHANGED retry

StateProjectLocation ==
  /\ InLoop("project_location")
  /\ IF optYes
     THEN /\ projectPath' = [base |-> "cwd", name |-> projectName]
          /\ wizardState' = "generate"
          /\ last' = Step("project_location", "advance", FALSE)
     ELSE \E result \in promptProjectLocation(projectName, TRUE) :
            IF result = GO_BACK_SECTION
            THEN /\ wizardState' = "summary"
                 /\ last' = Step("project_location", "BACK", FALSE)
                 /\ UNCHANGED projectPath
            ELSE /\ projectPath' = result.value
                 /\ wizardState' = "generate"
                 /\ last' = Step("project_location", "advance", FALSE)
  /\ backs' = IF last'.outcome = "BACK" THEN backs + 1 ELSE backs
  /\ trail' = Trail(last'.outcome, wizardState')
  /\ UNCHANGED <<escVars, runVars, procVars, materializer>>
  /\ UNCHANGED <<optVars, discVars, sugVars, cfgVars, cntVars, aiContentGenerated,
                 projectName, description, context, brandingAnswers, ideaMode,
                 pc, nameEnteredFrom, ideaConfirmed, invoked>>
  /\ UNCHANGED retry

-----------------------------------------------------------------------------
(* After the loop *)

loopVars == <<wizardState, aiContentGenerated, projectName, description, context,
              brandingAnswers, ideaMode, projectPath>>

\* what generate() may return: success or not, with or without the errors
\* of generator modules
GenerateResults ==
  {[success |-> ok, errors |-> errors] :
     ok \in BOOLEAN, errors \in {<<>>, <<"auth: failed", "email: failed">>}}

\* a create action that runs the materializer again after a failure
GenerateFailedPc_Retry == "loop"

\* if (!result.success) { ...; return; }
GenerateFailedPc == "failed"

\* the errors printed: result.errors.forEach(err => ui.log(...)) in the
\* failure branch, none after a success
ReportedErrors(result) == IF result.success THEN <<>> ELSE result.errors

\* const result = await generate(context, projectPath || undefined);
\* if (!result.success) { ui.error(...); result.errors.forEach(...); return; }
GenerateProject ==
  /\ pc = "loop" /\ ~LoopCondition(wizardState)
  /\ \E result \in GenerateResults :
       /\ pc' = IF result.success THEN "git" ELSE GenerateFailedPc
       /\ materializer' = [calls |-> materializer.calls + 1,
                           result |-> result,
                           reported |-> ReportedErrors(result)]
  /\ cli' = IF pc' = "failed" THEN ProcessEnds(cli) ELSE cli
  /\ invoked' = invoked \cup {"generate"}
  /\ UNCHANGED <<optVars, discVars, sugVars, cfgVars, cntVars, loopVars,
                 last, nameEnteredFrom, ideaConfirmed, backs, trail, escVars,
                 runVars, mgrVars>>
  /\ UNCHANGED retry

\* the integrations called for the flags and results given
Integrations(skipGit, skipGithub, gitOk, githubConfigured, createRepo) ==
  IF skipGit THEN {}
  ELSE {"setupGit"} \cup
       (IF ~skipGithub /\ gitOk /\ githubConfigured /\ createRepo
        THEN {"setupGitHubRepo"} ELSE {})

\* git initialization and GitHub setup, then the success message
PostGeneration ==
  /\ pc = "git"
  /\ \E skipGit, skipGithub, gitOk, githubConfigured, createRepo \in BOOLEAN :
       invoked' = invoked \cup
                    Integrations(skipGit, skipGithub, gitOk, githubConfigured, createRepo)
  /\ pc' = "done"
  /\ cli' = ProcessEnds(cli)
  /\ UNCHANGED <<optVars, discVars, sugVars, cfgVars, cntVars, loopVars,
                 last, nameEnteredFrom, ideaConfirmed, backs, trail, escVars,
                 runVars, mgrVars, materializer>>
  /\ UNCHANGED retry

Next ==
  \/ StateIdeaMode
  \/ StateDiscoveryRoughIdea
  \/ StateDiscoverySector
  \/ StateDiscoveryResearch
  \/ StateDiscoveryResults
  \/ StateDiscoverySelect
  \/ StateDiscoveryConfirm
  \/ StateName
  \/ StateDescription
  \/ StateIdeaRefinement
  \/ StateNameResearch
  \/ StateProjectConfig
  \/ StateBranding
  \/ StateAiContent
  \/ StateSummary
  \/ StateProjectLocation
  \/ GenerateProject
  \/ PostGeneration

Spec == Init /\ [][Next]_vars

-----------------------------------------------------------------------------
(* Exceptions in a state handler *)

\* the states whose handler is awaiting a call outside every try block when
\* the call rejects: the prompts of the loop (with --yes, summary and
\* project_location ask nothing)
AwaitsUnguarded(state, yes) ==
  state \in PromptStates /\ ~(yes /\ state \in {"summary", "project_location"})

\* a rejection that no catch block handles leaves the async action; the
\* promise of the action is not awaited (program.parse()), and the process
\* ends on the unhandled rejection with exit code 1
UnhandledRejection(c) == Exited(c, "1")

\* the awaited prompt of the current state rejects: the while loop has no
\* try/catch around its handlers, so the exception leaves the loop and the
\* action
HandlerThrows ==
  /\ pc = "loop" /\ LoopCondition(wizardState)
  /\ AwaitsUnguarded(wizardState, optYes)
  /\ pc' = "crashed"
  /\ last' = Step(wizardState, "throw", FALSE)
  /\ trail' = Trail("throw", wizardState)
  /\ cli' = UnhandledRejection(cli)
  /\ UNCHANGED <<optVars, discVars, sugVars, cfgVars, cntVars, loopVars,
                 nameEnteredFrom, ideaConfirmed, backs, invoked, escVars,
                 runVars, mgrVars, materializer>>
  /\ UNCHANGED retry

FaultNext == Next \/ HandlerThrows

\* the create action with handlers whose awaited calls may reject
FaultSpec == Init /\ [][FaultNext]_vars

-----------------------------------------------------------------------------
(* The prompt layer: one prompt after another, ESC presses and answers *)

wizardVars ==
  <<optVars, discVars, sugVars, cfgVars, cntVars, loopVars, pc, last,
    nameEnteredFrom, ideaConfirmed, backs, invoked, trail, materializer>>

\* a handler calls its prompt
OpenPrompt ==
  /\ prompt.status = "closed"
  /\ \E at \in PromptStates :
       prompt' = [status |-> "open", at |-> at, canGoBack |-> CanGoBackAt(at),
                  escs |-> 0, result |-> Null]
  /\ lastCheck' = NoCheck
  /\ UNCHANGED <<now, lastEscTime, escTotal, wizardVars, procVars, runVars>>
  /\ UNCHANGED retry

\* time passes
ClockTick ==
  /\ \E d \in EscDeltas :
       /\ now + d <= EscEnd
       /\ now' = now + d
  /\ UNCHANGED <<lastEscTime, prompt, escTotal, lastCheck, wizardVars, procVars, runVars>>
  /\ UNCHANGED retry

\* the open prompt resolves with the cancel symbol (ESC)
PressEsc ==
  /\ prompt.status = "open"
  /\ escTotal < MaxEscs
  /\ LET escAction == checkEscForBack(TRUE, now, lastEscTime)
         returns == escAction.action = "back"
                      /\ PromptOnBack(prompt.canGoBack) = "return"
     IN  /\ lastEscTime' = escAction.lastEscTime
         /\ lastCheck' = [value |-> "cancel", action |-> escAction.action,
                          gap |-> now - lastEscTime, before |-> lastEscTime,
                          at |-> now]
         /\ prompt' = [prompt EXCEPT
                         !.escs = @ + 1,
                         !.status = IF returns THEN "closed" ELSE "open",
                         !.result = IF returns THEN GO_BACK_SECTION ELSE @]
  /\ escTotal' = escTotal + 1
  /\ UNCHANGED <<now, wizardVars, procVars, runVars>>
  /\ UNCHANGED retry

\* the open prompt resolves with a value, which it returns
AnswerPrompt ==
  /\ prompt.status = "open"
  /\ LET escAction == checkEscForBack(FALSE, now, lastEscTime)
     IN  /\ lastEscTime' = escAction.lastEscTime
         /\ lastCheck' = [value |-> "answer", action |-> escAction.action,
                          gap |-> 0, before |-> lastEscTime, at |-> now]
  /\ prompt' = [prompt EXCEPT !.status = "closed", !.result = Value("answer")]
  /\ UNCHANGED <<now, escTotal, wizardVars, procVars, runVars>>
  /\ UNCHANGED retry

PromptNext ==
  \/ OpenPrompt
  \/ ClockTick
  \/ PressEsc
  \/ AnswerPrompt

PromptLayerInit ==
  /\ WizardInit
  /\ nameArg = <<>> /\ claudeAvailable /\ ~optYes /\ ~optSkipAi
  /\ PromptInit
  /\ RunnerIdle
  /\ ProcCreate
  /\ RetryIdle

PromptSpec == PromptLayerInit /\ [][PromptNext]_vars

-----------------------------------------------------------------------------
(* The streaming task runner: one call of discoverSaasIdeas *)

\* the promise settles once: resolve and reject of a settled promise do nothing
Settle(c, outcome, at) ==
  IF c.status = "pending"
  THEN [c EXCEPT !.status = outcome.status, !.error = outcome.error,
                 !.detail = outcome.detail, !.value = outcome.value,
                 !.settledAt = at]
  ELSE c

Rejection(error, detail) ==
  [status |-> "rejected", error |-> error, detail |-> detail, value |-> Null]

Resolution(value) ==
  [status |-> "resolved", error |-> "none", detail |-> "", value |-> value]

\* a timeout handler that rejects without touching the subprocess
TimeoutKills_None(kills) == kills

\* child.kill() in the timeout handler
TimeoutKills(kills) == kills + 1

\* a runner that hands its subprocess to trackProcess
SpawnTracking_Tracks(active) == active \cup {"claude"}

\* spawn('claude', args): the subprocess is not given to trackProcess
SpawnTracking(active) == active

\* new Promise(...): spawn('claude', args), setInterval, setTimeout.  The
\* subprocess is the environment: it may or may not finish by itself, and
\* may or may not exit on the signal child.kill() sends
StartCall ==
  /\ call.status = "idle"
  /\ \E timeout \in {DefaultTimeout, DiscoveryTimeout} :
       call' = [NoCall EXCEPT !.status = "pending", !.timeout = timeout]
  /\ \E honoursKill, finishes \in BOOLEAN :
       child' = [NoChild EXCEPT !.status = "running",
                                !.honoursKill = honoursKill,
                                !.finishes = finishes]
  /\ timers' = [timeout |-> TRUE, status |-> TRUE]
  /\ discovery' = [status |-> "pending", error |-> "none"]
  /\ stream' = NoStream
  /\ runClock' = 0
  /\ activeProcesses' = SpawnTracking(activeProcesses)
  /\ UNCHANGED <<kids, cleanupRegistered, signalHandlersSetup, listeners,
                 graceTimers, procClock, setupCalls, graceSwept, cli>>
  /\ UNCHANGED <<wizardVars, escVars>>
  /\ UNCHANGED retry

\* the callbacks of statusInterval that run while `elapsed` passes
StatusUpdates(st, elapsed) ==
  [st EXCEPT !.statusEvents = @ + elapsed \div StatusInterval]

\* the locals after a callback ran, with the calls of onProgress counted that
\* it made after the promise c had settled
Delivered(after, before, c) ==
  LET made == (Len(after.progress) - Len(before.progress))
                + (after.statusEvents - before.statusEvents)
  IN  IF c.status \in {"resolved", "rejected"}
      THEN [after EXCEPT !.late = @ + made]
      ELSE after

\* time passes; an armed timer fires before time passes its instant
RunTick ==
  /\ call.status # "idle"
  /\ runClock + RunStep <= RunEnd
  /\ timers.timeout => runClock + RunStep <= call.timeout
  /\ runClock' = runClock + RunStep
  /\ stream' = IF timers.status
               THEN Delivered(StatusUpdates(stream, RunStep), stream, call)
               ELSE stream
  /\ UNCHANGED <<call, child, timers, discovery, wizardVars, procVars, escVars>>
  /\ UNCHANGED retry

\* the event options.onProgress receives
ProgressEvent(type, sources, st) ==
  [type |-> type, sources |-> sources, searchCount |-> st.searchCount,
   totalSources |-> Len(st.allSources)]

\* the hostnames of event.tool_use_result.results[].content[].url, each
\* pushed unless domains already includes it
StructuredDomains(event) == Unique(Hostnames(event.structured))

\* the domains of a tool result: the structured ones, and when there are
\* none, those extractDomains finds in the tool_result content
ToolResultDomains(event) ==
  LET domains == StructuredDomains(event)
  IN  IF domains = <<>> /\ event.content.kind # "none"
      THEN extractDomains(event.content)
      ELSE domains

\* the body of the loop over the complete lines of a chunk, for one line
ProcessLine(st, event) ==
  LET searched ==
        IF event.type = "assistant" /\ event.search
        THEN LET counted == [st EXCEPT !.searchCount = @ + 1]
             IN  [counted EXCEPT !.progress =
                    Append(@, ProgressEvent("tool_use", <<>>, counted))]
        ELSE st
      newDomains ==
        SelectSeq(ToolResultDomains(event),
                  LAMBDA d : d \notin Range(searched.allSources))
      sourced ==
        IF event.type = "user" /\ newDomains # <<>>
        THEN LET pushed == [searched EXCEPT !.allSources = @ \o newDomains]
             IN  [pushed EXCEPT !.progress =
                    Append(@, ProgressEvent("result", newDomains, pushed))]
        ELSE searched
  IN  IF event.type = "result" /\ event.result # ""
      THEN [sourced EXCEPT !.finalResult = event.result]
      ELSE sourced

\* child.stdout.on('data'): a chunk that ends the line left in the buffer, if
\* any, and carries one more line, with or without its newline
StreamData ==
  /\ child.status = "running"
  /\ child.events < MaxStreamEvents
  /\ \E line \in StreamLines, newline \in BOOLEAN :
       LET appended == [stream EXCEPT !.stdout = Append(@, line)]
           flushed == IF stream.buffer # <<>>
                      THEN ProcessLine(appended, stream.buffer[1])
                      ELSE appended
       IN  stream' = Delivered(IF newline
                               THEN [ProcessLine(flushed, line) EXCEPT !.buffer = <<>>]
                               ELSE [flushed EXCEPT !.buffer = <<line>>],
                               stream, call)
  /\ child' = [child EXCEPT !.events = @ + 1]
  /\ UNCHANGED <<runClock, call, timers, discovery, wizardVars, procVars, escVars>>
  /\ UNCHANGED retry

\* child.stderr.on('data'): stderr += chunk
StderrData ==
  /\ child.status = "running"
  /\ stream.stderr = ""
  /\ \E text \in StderrTexts : stream' = [stream EXCEPT !.stderr = text]
  /\ UNCHANGED <<runClock, call, child, timers, discovery, wizardVars, procVars, escVars>>
  /\ UNCHANGED retry

\* the setTimeout callback: child.kill(); clearInterval; reject(timed out)
TimeoutFires ==
  /\ timers.timeout
  /\ runClock >= call.timeout
  /\ child' = [child EXCEPT !.kills = TimeoutKills(@)]
  /\ timers' = [timeout |-> FALSE, status |-> FALSE]
  /\ call' = Settle(call, Rejection("Claude Code request timed out", ""), runClock)
  /\ UNCHANGED <<runClock, discovery, stream, wizardVars, procVars, escVars>>
  /\ UNCHANGED retry

\* the result of the last line of stdout that is a 'result' event with a
\* result, or "" when there is none
RECURSIVE LastResult(_)
LastResult(lines) ==
  IF lines = <<>> THEN ""
  ELSE LET event == lines[Len(lines)]
       IN  IF event.type = "result" /\ event.result # ""
           THEN event.result
           ELSE LastResult(SubSeq(lines, 1, Len(lines) - 1))

FinalAnswer(text) == [kind |-> "result", text |-> text]
RawStdout(lines) == [kind |-> "stdout", lines |-> lines]

\* a close handler that returns the accumulated output whenever there is some
CloseOutcome_PrefersStdout(code, finalResult, stdout, stderr) ==
  IF code # "0" /\ finalResult = ""
  THEN Rejection("Claude Code failed with code", stderr)
  ELSE IF stdout # <<>> THEN Resolution(RawStdout(stdout))
  ELSE Resolution(FinalAnswer(finalResult))

\* the close handler after the remaining buffer: reject on a failure without a
\* final result, else the final result, else the last result line of stdout,
\* else stdout
CloseOutcome(code, finalResult, stdout, stderr) ==
  IF code # "0" /\ finalResult = ""
  THEN Rejection("Claude Code failed with code", stderr)
  ELSE IF finalResult # "" THEN Resolution(FinalAnswer(finalResult))
  ELSE IF LastResult(stdout) # "" THEN Resolution(FinalAnswer(LastResult(stdout)))
  ELSE Resolution(RawStdout(stdout))

\* the exit codes `close` can report: the subprocess's own, or null (and the
\* code of its handler) when it ends on the signal
ExitCodes(c) ==
  (IF c.finishes THEN {"0", "1"} ELSE {}) \cup
  (IF c.kills > 0 /\ c.honoursKill THEN {"null", "1"} ELSE {})

\* child.on('close'): the subprocess exited, by itself or on the signal
ChildClose ==
  /\ child.status = "running"
  /\ \E code \in ExitCodes(child) :
       LET remaining == stream.buffer
           finalResult ==
             IF /\ remaining # <<>>
                /\ remaining[1].type = "result"
                /\ remaining[1].result # ""
             THEN remaining[1].result
             ELSE stream.finalResult
       IN  /\ stream' = [stream EXCEPT !.finalResult = finalResult]
           /\ call' = Settle(call,
                             CloseOutcome(code, finalResult, stream.stdout,
                                          stream.stderr),
                             runClock)
           /\ child' = [child EXCEPT !.status = "exited", !.code = code]
  /\ timers' = [timeout |-> FALSE, status |-> FALSE]
  /\ UNCHANGED <<runClock, discovery, wizardVars, procVars, escVars>>
  /\ UNCHANGED retry

\* child.on('error'): the subprocess could not be spawned
ChildError ==
  /\ child.status = "running" /\ child.events = 0 /\ runClock = 0
  /\ child' = [child EXCEPT !.status = "none"]
  /\ timers' = [timeout |-> FALSE, status |-> FALSE]
  /\ call' = Settle(call, Rejection("Claude Code failed", ""), runClock)
  /\ UNCHANGED <<runClock, discovery, stream, wizardVars, procVars, escVars>>
  /\ UNCHANGED retry

\* discoverSaasIdeas after the await: parse the response, or catch -> fallback
DiscoveryReturns ==
  /\ discovery.status = "pending"
  /\ call.status \in {"resolved", "rejected"}
  /\ IF call.status = "rejected"
     THEN discovery' = [status |-> "fallback", error |-> call.error]
     ELSE \E parsed \in BOOLEAN :
            discovery' = IF parsed
                         THEN [status |-> "ideas", error |-> "none"]
                         ELSE [status |-> "fallback",
                               error |-> "Invalid AI response format"]
  /\ UNCHANGED <<runClock, call, child, timers, stream, wizardVars, procVars, escVars>>
  /\ UNCHANGED retry

RunnerNext ==
  \/ StartCall
  \/ RunTick
  \/ StreamData
  \/ StderrData
  \/ TimeoutFires
  \/ ChildClose
  \/ ChildError
  \/ DiscoveryReturns

RunnerInit ==
  /\ WizardInit
  /\ nameArg = <<>> /\ claudeAvailable /\ ~optYes /\ ~optSkipAi
  /\ PromptInit
  /\ RunnerIdle
  /\ ProcCreate
  /\ RetryIdle

\* the event loop runs every callback that is due, and time goes on
RunnerSpec ==
  /\ RunnerInit
  /\ [][RunnerNext]_vars
  /\ WF_vars(RunTick)
  /\ WF_vars(TimeoutFires)
  /\ WF_vars(ChildClose)
  /\ WF_vars(DiscoveryReturns)

-----------------------------------------------------------------------------
(* The process layer: registry, setup functions, signals and the grace timer *)

\* setupSignalHandlers()
SetupSignalHandlers ==
  /\ cli.status = "running"
  /\ setupCalls.signal < MaxSetupCalls
  /\ setupCalls' = [setupCalls EXCEPT !.signal = @ + 1]
  /\ IF AlreadySetup(signalHandlersSetup)
     THEN UNCHANGED <<signalHandlersSetup, listeners>>
     ELSE /\ signalHandlersSetup' = TRUE
          /\ listeners' = InstallSignalHandlers(listeners, cli.isTTY)
  /\ UNCHANGED <<activeProcesses, kids, cleanupRegistered, graceTimers,
                 procClock, graceSwept, cli>>
  /\ UNCHANGED <<wizardVars, escVars, runVars>>
  /\ UNCHANGED retry

\* registerCleanupHandlers()
RegisterCleanupHandlers ==
  /\ cli.status = "running"
  /\ setupCalls.cleanup < MaxSetupCalls
  /\ setupCalls' = [setupCalls EXCEPT !.cleanup = @ + 1]
  /\ IF AlreadySetup(cleanupRegistered)
     THEN UNCHANGED <<cleanupRegistered, listeners>>
     ELSE /\ cleanupRegistered' = TRUE
          /\ listeners' = InstallCleanupHandlers(listeners)
  /\ UNCHANGED <<activeProcesses, kids, signalHandlersSetup, graceTimers,
                 procClock, graceSwept, cli>>
  /\ UNCHANGED <<wizardVars, escVars, runVars>>
  /\ UNCHANGED retry

\* a prompt is awaited: the terminal is in raw mode and the prompt library
\* listens to stdin, after the listeners already there
PromptPending ==
  /\ cli.status = "running" /\ ~cli.prompting
  /\ cli' = [cli EXCEPT !.prompting = TRUE]
  /\ listeners' = On(listeners, "data", "clack")
  /\ UNCHANGED <<activeProcesses, kids, cleanupRegistered, signalHandlersSetup,
                 graceTimers, procClock, setupCalls, graceSwept>>
  /\ UNCHANGED <<wizardVars, escVars, runVars>>
  /\ UNCHANGED retry

\* the prompt returns: the library removes its listener
PromptAnswered ==
  /\ cli.status = "running" /\ cli.prompting
  /\ cli' = [cli EXCEPT !.prompting = FALSE]
  /\ listeners' = [listeners EXCEPT
                     !["data"] = SelectSeq(@, LAMBDA h : h # "clack")]
  /\ UNCHANGED <<activeProcesses, kids, cleanupRegistered, signalHandlersSetup,
                 graceTimers, procClock, setupCalls, graceSwept>>
  /\ UNCHANGED <<wizardVars, escVars, runVars>>
  /\ UNCHANGED retry

\* a caller spawns a subprocess and calls trackProcess(child)
trackProcess(k) ==
  /\ cli.status = "running"
  /\ kids[k].status = "none"
  /\ \E honoursTerm \in BOOLEAN :
       kids' = [kids EXCEPT ![k] = [NoKid EXCEPT !.status = "running",
                                                  !.honoursTerm = honoursTerm]]
  /\ activeProcesses' = activeProcesses \cup {k}
  /\ UNCHANGED <<cleanupRegistered, signalHandlersSetup, listeners, graceTimers,
                 procClock, setupCalls, graceSwept, cli>>
  /\ UNCHANGED <<wizardVars, escVars, runVars>>
  /\ UNCHANGED retry

\* untrackProcess(child)
untrackProcess(k) ==
  /\ cli.status = "running"
  /\ k \in activeProcesses
  /\ activeProcesses' = Delete(activeProcesses, k)
  /\ kids' = [kids EXCEPT ![k].untracked = TRUE]
  /\ UNCHANGED <<cleanupRegistered, signalHandlersSetup, listeners,
                 graceTimers, procClock, setupCalls, graceSwept, cli>>
  /\ UNCHANGED <<wizardVars, escVars, runVars>>
  /\ UNCHANGED retry

\* a subprocess exits, by itself, on a SIGTERM it honours, or on SIGKILL; the
\* 'exit' listener of trackProcess removes it while the CLI lives
KidExit(k) ==
  /\ kids[k].status = "running"
  /\ kids' = [kids EXCEPT ![k].status = "exited"]
  /\ activeProcesses' = IF cli.status = "running"
                        THEN Delete(activeProcesses, k)
                        ELSE activeProcesses
  /\ UNCHANGED <<cleanupRegistered, signalHandlersSetup, listeners, graceTimers,
                 procClock, setupCalls, graceSwept, cli>>
  /\ UNCHANGED <<wizardVars, escVars, runVars>>
  /\ UNCHANGED retry

\* a subprocess that could not be spawned emits 'error' instead of running
\* (there is nothing that could honour a signal); the 'error' listener of
\* trackProcess removes it
KidError(k) ==
  /\ cli.status = "running"
  /\ k \in activeProcesses
  /\ kids[k].status = "running" /\ kids[k].signals = {}
  /\ kids' = [kids EXCEPT ![k].status = "failed", ![k].honoursTerm = FALSE]
  /\ activeProcesses' = Delete(activeProcesses, k)
  /\ UNCHANGED <<cleanupRegistered, signalHandlersSetup, listeners, graceTimers,
                 procClock, setupCalls, graceSwept, cli>>
  /\ UNCHANGED <<wizardVars, escVars, runVars>>
  /\ UNCHANGED retry

\* the handlers' result becomes the state
Becomes(ps) ==
  /\ kids' = ps.kids
  /\ graceTimers' = ps.graceTimers
  /\ cli' = ps.cli

\* Ctrl-C: the byte 0x03 on stdin while a prompt has the terminal in raw
\* mode, the signal SIGINT otherwise
Interrupt ==
  /\ cli.status = "running"
  /\ LET seen == [ProcState EXCEPT
                      !.cli.interrupted = @ \/ signalHandlersSetup,
                      !.cli.notices = {}]
     IN  Becomes(IF cli.isTTY /\ cli.prompting
                 THEN Dispatch(listeners["data"], seen)
                 ELSE Deliver("SIGINT", seen))
  /\ UNCHANGED <<activeProcesses, cleanupRegistered, signalHandlersSetup,
                 listeners, procClock, setupCalls, graceSwept>>
  /\ UNCHANGED <<wizardVars, escVars, runVars>>
  /\ UNCHANGED retry

\* the signals SIGTERM and SIGHUP
Terminate ==
  /\ cli.status = "running"
  /\ \E sig \in {"SIGTERM", "SIGHUP"} : Becomes(Deliver(sig, ProcState))
  /\ UNCHANGED <<activeProcesses, cleanupRegistered, signalHandlersSetup,
                 listeners, procClock, setupCalls, graceSwept>>
  /\ UNCHANGED <<wizardVars, escVars, runVars>>
  /\ UNCHANGED retry

\* an exception nobody catches: the listener, or the runtime's exit with 1
UncaughtException ==
  /\ cli.status = "running"
  /\ Becomes(IF listeners["uncaughtException"] = <<>>
             THEN processExit(ProcState, "1")
             ELSE Dispatch(listeners["uncaughtException"], ProcState))
  /\ UNCHANGED <<activeProcesses, cleanupRegistered, signalHandlersSetup,
                 listeners, procClock, setupCalls, graceSwept>>
  /\ UNCHANGED <<wizardVars, escVars, runVars>>
  /\ UNCHANGED retry

\* the callback of setTimeout(..., 500)
GraceTimerFires ==
  /\ cli.status = "running"
  /\ \E t \in graceTimers :
       /\ procClock >= t.due
       /\ kids' = [k \in Kids |-> ForceKill(k, t.by)]
       /\ graceTimers' = graceTimers \ {t}
       /\ graceSwept' =
            IF t.by = "killAllProcesses"
            THEN graceSwept \cup
                   {k \in activeProcesses : kids[k].status = "running"}
            ELSE graceSwept
  /\ UNCHANGED <<activeProcesses, cleanupRegistered, signalHandlersSetup,
                 listeners, procClock, setupCalls, cli>>
  /\ UNCHANGED <<wizardVars, escVars, runVars>>
  /\ UNCHANGED retry

\* time passes; a timer of a living process fires before time passes it
ProcTick ==
  /\ procClock + ProcStep <= ProcEnd
  /\ cli.status = "running" =>
       \A t \in graceTimers : procClock + ProcStep <= t.due
  /\ procClock' = procClock + ProcStep
  /\ UNCHANGED <<activeProcesses, kids, cleanupRegistered, signalHandlersSetup,
                 listeners, graceTimers, setupCalls, graceSwept, cli>>
  /\ UNCHANGED <<wizardVars, escVars, runVars>>
  /\ UNCHANGED retry

ProcessNext ==
  \/ SetupSignalHandlers
  \/ RegisterCleanupHandlers
  \/ PromptPending
  \/ PromptAnswered
  \/ \E k \in Kids : trackProcess(k)
  \/ \E k \in Kids : untrackProcess(k)
  \/ \E k \in Kids : KidExit(k)
  \/ \E k \in Kids : KidError(k)
  \/ Interrupt
  \/ Terminate
  \/ UncaughtException
  \/ GraceTimerFires
  \/ ProcTick

ProcessInit ==
  /\ WizardInit
  /\ nameArg = <<>> /\ claudeAvailable /\ ~optYes /\ ~optSkipAi
  /\ PromptInit
  /\ RunnerIdle
  /\ ProcFresh
  /\ RetryIdle

ProcessSpec == ProcessInit /\ [][ProcessNext]_vars

-----------------------------------------------------------------------------
(* One call of withRetry *)

\* everything but the call of withRetry
restVars ==
  <<wizardVars, escVars, runVars, procVars>>

\* the call of fn made by the loop resolves
FnResolves ==
  /\ retry.at = "loop"
  /\ retry' = OnSuccess(retry)
  /\ UNCHANGED restVars

\* the call of fn made by the loop rejects
FnRejects ==
  /\ retry.at = "loop"
  /\ \E kind \in {"transient", "permanent"} : retry' = OnFailure(retry, kind)
  /\ UNCHANGED restVars

\* the delay after a failed attempt has passed
DelayElapses ==
  /\ retry.at = "sleeping"
  /\ retry' = AfterDelay(retry)
  /\ UNCHANGED restVars

RetryNext ==
  \/ FnResolves
  \/ FnRejects
  \/ DelayElapses

RetryInit ==
  /\ WizardInit
  /\ nameArg = <<>> /\ claudeAvailable /\ ~optYes /\ ~optSkipAi
  /\ PromptInit
  /\ RunnerIdle
  /\ ProcCreate
  /\ retry \in {RetryCall(m, i, MaxDelayMs, o) :
                  m \in 0..MaxRetries, i \in {10, InitialDelayMs, 3 * InitialDelayMs},
                  o \in ShouldRetryOptions}

RetrySpec == RetryInit /\ [][RetryNext]_vars

-----------------------------------------------------------------------------
(* Properties *)

DirectEntry == {"description", "idea_refinement", "name_research"}

DiscoveryStates ==
  {"discovery_sector", "discovery_rough_idea", "discovery_research",
   "discovery_results", "discovery_select", "discovery_confirm"}

BackAt(at) == last.at = at /\ last.outcome = "BACK"

\* C1: a BACK at name goes to discovery_results when name was entered from
\* discovery_confirm, and to idea_refinement when it was entered on the
\* direct path (from description, idea_refinement or name_research).
C1_ProvenanceBacktrack ==
  BackAt("name") =>
    /\ nameEnteredFrom = "discovery_confirm" =>
         ideaMode \in {"discover", "validate"} /\ wizardState = "discovery_results"
    /\ nameEnteredFrom \in DirectEntry =>
         ideaMode = "has_idea" /\ wizardState = "idea_refinement"

C1_Witness ==
  BackAt("name") /\ nameEnteredFrom = "discovery_confirm"
    /\ wizardState = "discovery_results"

\* C2: with the AI assistant unavailable and name entered on the direct path,
\* a BACK at name goes to idea_mode.
C2_BackToIdeaModeWithoutAi ==
  (~claudeAvailable /\ BackAt("name") /\ nameEnteredFrom \in DirectEntry)
    => wizardState = "idea_mode"

C4_InvalidationOnPathSwitch ==
  (wizardState = "branding" /\ ideaConfirmed /\ ideaMode = "has_idea"
     /\ claudeAvailable /\ nameEnteredFrom \in DirectEntry)
    => context.discoveredIdea = "null"
         /\ context.saasType = createDefaultContext(<<>>, "").saasType

C6_SummaryBackRegenerates ==
  /\ BackAt("summary") => wizardState = "branding" /\ ~aiContentGenerated
  /\ (last.at = "ai_content" /\ summaryBacks >= 1 /\ claudeAvailable /\ ~optSkipAi)
       => last.aiCalled

C6_Witness ==
  last.at = "ai_content" /\ summaryBacks = 1 /\ last.aiCalled
    /\ context.heroHeadline = "ai headline" /\ ~aiContentGenerated

\* C7: after a decline at summary the create action has returned: the state
\* is still summary, and neither the materializer nor an integration has
\* been or will be invoked.
C7_DeclineTerminates ==
  /\ (last.at = "summary" /\ last.outcome = "decline") => pc = "cancelled"
  /\ pc = "cancelled" =>
       /\ last.at = "summary" /\ last.outcome = "decline"
       /\ wizardState = "summary"
       /\ invoked = {}

C7_Witness == pc = "cancelled" /\ last.outcome = "decline" /\ backs > 0

\* C8: after a BACK at branding the state is project_config and the
\* AI-content-generated flag is false.
C8_FlagClearAfterBrandingBack ==
  BackAt("branding") => wizardState = "project_config" /\ ~aiContentGenerated

C8_Witness == BackAt("branding") /\ context.heroHeadline = "ai headline"

\* C9: the current state is always a declared WizardState; the code after
\* the loop runs only with generate current; and with generate current the
\* last handler that ran is the one of project_location, which advanced.
C9_SingleStateUniqueTerminal ==
  /\ wizardState \in WizardState
  /\ pc \in {"loop", "cancelled", "failed", "git", "done"}
  /\ (pc \in {"failed", "git", "done"} \/ invoked # {}) => wizardState = "generate"
  /\ wizardState = "generate" =>
       last.at = "project_location" /\ last.outcome = "advance"

C9_Witness == wizardState = "generate" /\ pc = "done" /\ backs > 0

\* the predecessor of a state on the linear path
LinearPredecessor(at) ==
  CASE at = "name" ->
         IF nameEnteredFrom = "description" THEN "description" ELSE "none"
    [] at = "project_config" -> "name"
    [] at = "branding" -> "project_config"
    [] at = "summary" -> "branding"
    [] at = "project_location" -> "summary"
    [] OTHER -> "none"

\* C10: with the AI assistant unavailable, a BACK in the successor of a
\* state S of the linear path goes back to S, and the answers accepted so
\* far are unchanged.
C10_BackForwardSymmetry ==
  (~claudeAvailable /\ last.outcome = "BACK" /\ LinearPredecessor(last.at) # "none")
    => /\ wizardState = LinearPredecessor(last.at)
       /\ <<projectName, description, projectConfig, brandingAnswers>> = last.snap

\* the run so far only moved forward
AllForward == trail # <<>>

\* C11: started with a project name and the AI assistant unavailable, an
\* all-forward run that reaches generate has visited exactly description,
\* project_config, branding, summary, generate, in this order.
C11_ScenarioA ==
  (nameArg # <<>> /\ ~claudeAvailable /\ AllForward /\ wizardState = "generate")
    => trail = <<"description", "project_config", "branding", "summary", "generate">>

\* C12: on an all-forward run with no name argument, the AI assistant
\* available and idea mode discover, when name is entered from
\* discovery_confirm the context's discoveredIdea is the selected candidate,
\* the project name is the slug of the candidate's name and the name prompt
\* offers it as its initial text; when the run reaches generate the context
\* still links the selected candidate.
C12_ScenarioB ==
  (nameArg = <<>> /\ claudeAvailable /\ AllForward /\ ideaMode = "discover")
    => /\ (wizardState = "name" /\ last.at = "discovery_confirm") =>
            /\ selectedIdea \in Range(discoveredIdeas)
            /\ context.discoveredIdea = selectedIdea
            /\ projectName = IdeaSlug(IdeaName(selectedIdea))
            /\ context.name = projectName
            /\ suggestedNames = <<>>
            /\ Value(projectName) \in promptName(suggestedNames, TRUE, projectName)
       /\ wizardState = "generate" =>
            /\ selectedIdea \in Range(discoveredIdeas)
            /\ context.discoveredIdea = selectedIdea
            /\ context.name = projectName

C12_Witness ==
  /\ nameArg = <<>> /\ claudeAvailable /\ AllForward /\ ideaMode = "discover"
  /\ "generate" \in invoked
  /\ context.discoveredIdea = "fallback-2"
  /\ projectName = sanitizeProjectName(MyApp)

\* C13: started with a project name, an all-forward run enters neither
\* idea_mode nor name.
C13_NameArgumentSkipsName ==
  (nameArg # <<>> /\ AllForward)
    => "idea_mode" \notin Range(trail) /\ "name" \notin Range(trail)

\* C14: at discovery_select, 'more' leads to discovery_research, 'sector' and
\* BACK lead to discovery_sector, and only a selected idea leads to
\* discovery_confirm; discovery_research leaves exactly the ideas of its own
\* run in the list and leads to discovery_results.
C14_SelectOutcomes ==
  /\ last.at = "discovery_select" =>
       /\ last.outcome \in {"more", "sector", "BACK", "advance"}
       /\ last.outcome = "more" => wizardState = "discovery_research"
       /\ last.outcome \in {"sector", "BACK"} => wizardState = "discovery_sector"
       /\ last.outcome = "advance" =>
            wizardState = "discovery_confirm" /\ selectedIdea \in Range(discoveredIdeas)
  /\ last.at = "discovery_research" =>
       /\ wizardState = "discovery_results"
       /\ discoveredIdeas =
            IF last.outcome = "fallback" THEN createFallbackIdeas ELSE AiIdeas

C14_Witness ==
  /\ last.at = "discovery_research" /\ last.prev = "discovery_select"
  /\ discoveredIdeas = AiIdeas
  /\ selectedIdea \in Range(createFallbackIdeas)

\* C15: whenever the project_config handler has prompted, the project
\* analysis it used was computed from the current description.
C15_AnalysisFollowsDescription ==
  last.at = "project_config" =>
    projectAnalysis # Null /\ projectAnalysis.of = description

\* C16: no wizard data variable and no context field holds the BACK
\* sentinel: each holds a value of its own kind (text, an idea, an answer
\* record) or its initial null.
C16_SentinelNeverStored ==
  /\ projectName \in Seq(STRING)
  /\ description \in STRING
  /\ ideaMode \in IdeaMode
  /\ discoverySector \in STRING
  /\ roughIdea \in STRING
  /\ selectedIdea \in IdeaIds \cup {"null"}
  /\ projectConfig # GO_BACK_SECTION
  /\ brandingAnswers # GO_BACK_SECTION
  /\ projectPath # GO_BACK_SECTION
  /\ context.name \in Seq(STRING)
  /\ \A f \in DOMAIN context \ {"name"} : context[f] \in STRING

C16_Witness ==
  /\ BackAt("branding") /\ brandingAnswers \in UserBranding
  /\ last.prev = "summary"

\* C17: an ESC less than 1000 ms after the previous ESC is classified 'back';
\* an ESC 1000 ms or more after it is classified 'hint'; either way the
\* window restarts from the time of this ESC; a value that is not a cancel
\* is classified null and leaves the window as it was.
C17_DoubleEscWindow ==
  /\ lastCheck.value = "cancel" =>
       /\ lastCheck.gap = lastCheck.at - lastCheck.before
       /\ lastCheck.gap < EscWindow => lastCheck.action = "back"
       /\ lastCheck.gap >= EscWindow => lastCheck.action = "hint"
       /\ lastEscTime = lastCheck.at
  /\ lastCheck.value = "answer" =>
       lastCheck.action = "null" /\ lastEscTime = lastCheck.before

C17_Witness ==
  /\ lastCheck.value = "cancel" /\ lastCheck.gap = EscWindow
  /\ lastCheck.action = "hint" /\ prompt.escs = 2 /\ prompt.status = "open"

\* C18: the first ESC a prompt invocation receives produces the hint, and an
\* invocation that returned BACK has received at least two ESCs.
C18_SingleEscNeverExits ==
  /\ (lastCheck.value = "cancel" /\ prompt.escs = 1) => lastCheck.action = "hint"
  /\ prompt.result = GO_BACK_SECTION => prompt.escs >= 2

\* C19: the prompt of idea_mode, called without canGoBack, never returns the
\* BACK sentinel: on a double ESC it stays open and re-asks.
C19_NonBacktrackableSwallowsBack ==
  /\ prompt.result = GO_BACK_SECTION => prompt.canGoBack /\ prompt.at # "idea_mode"
  /\ (prompt.at = "idea_mode" /\ lastCheck.value = "cancel") =>
       prompt.status = "open" /\ prompt.result = Null

C19_Witness ==
  /\ prompt.at = "idea_mode" /\ lastCheck.action = "back"
  /\ prompt.escs = 2 /\ prompt.status = "open"

TimedOut == call.error = "Claude Code request timed out"

\* C20: a call that times out has sent a kill to the subprocess and was
\* rejected with the timeout error at the timeout instant; no call is pending
\* after its timeout instant; after a timeout the subprocess eventually has
\* exited and the caller eventually has its fallback.
C20_TimeoutIsolation ==
  /\ [](TimedOut => child.kills > 0 /\ call.settledAt = call.timeout)
  /\ [](call.status = "pending" => runClock <= call.timeout)
  /\ (TimedOut ~> discovery.status = "fallback")
  /\ (TimedOut ~> child.status = "exited")

NoDuplicates(xs) == Cardinality(Range(xs)) = Len(xs)

\* the hostnames that the 'result' events given to onProgress carried, in order
RECURSIVE ReportedSources(_)
ReportedSources(events) ==
  IF events = <<>> THEN <<>>
  ELSE ReportedSources(SubSeq(events, 1, Len(events) - 1))
         \o events[Len(events)].sources

\* C22: within one call of the streaming task runner no hostname is reported
\* to onProgress twice, none is held twice in allSources, and the totalSources
\* of every event counts each reported hostname once.
C22_SourceDeduplication ==
  /\ NoDuplicates(ReportedSources(stream.progress))
  /\ NoDuplicates(stream.allSources)
  /\ \A i \in DOMAIN stream.progress :
       stream.progress[i].totalSources =
         Cardinality(Range(ReportedSources(SubSeq(stream.progress, 1, i))))

Closed == child.status = "exited"

\* a 'result' event with a result was parsed from the output
FinalAnswerParsed == stream.finalResult # ""

\* C23 as stated: once the subprocess has closed, a non-zero exit code without
\* a parsed final answer means the call is rejected with an error that holds
\* the captured stderr; a parsed final answer means the call is resolved with
\* it; and a call resolved with the raw stdout means none was parsed.
C23_Completion ==
  Closed =>
    /\ (child.code # "0" /\ ~FinalAnswerParsed) =>
         /\ call.status = "rejected"
         /\ call.error = "Claude Code failed with code"
         /\ call.detail = stream.stderr
    /\ FinalAnswerParsed =>
         /\ call.status = "resolved"
         /\ call.value = FinalAnswer(stream.finalResult)
    /\ (call.status = "resolved" /\ call.value.kind = "stdout") =>
         /\ ~FinalAnswerParsed
         /\ call.value = RawStdout(stream.stdout)

\* C23 amended: the same, for a call that its timeout has not rejected before
\* the subprocess closed.
C23_CompletionUnlessTimedOut ==
  (Closed /\ ~TimedOut) =>
    /\ (child.code # "0" /\ ~FinalAnswerParsed) =>
         /\ call.status = "rejected"
         /\ call.error = "Claude Code failed with code"
         /\ call.detail = stream.stderr
    /\ FinalAnswerParsed =>
         /\ call.status = "resolved"
         /\ call.value = FinalAnswer(stream.finalResult)
    /\ (call.status = "resolved" /\ call.value.kind = "stdout") =>
         /\ ~FinalAnswerParsed
         /\ call.value = RawStdout(stream.stdout)

\* a failed exit with stderr captured and no final answer; elsewhere a final
\* answer preferred to a non-empty stdout
C23_Witness ==
  /\ Closed /\ ~TimedOut
  /\ child.code = "1" /\ ~FinalAnswerParsed
  /\ stream.stderr # "" /\ call.detail = stream.stderr
  /\ Len(stream.stdout) = MaxStreamEvents

Doomed(k) ==
  \/ kids[k].status = "exited"
  \/ "SIGKILL" \in kids[k].signals
  \/ "SIGTERM" \in kids[k].signals /\ kids[k].honoursTerm

\* C24: every tracked subprocess that is still alive when the grace period of
\* killAllProcesses ends has been sent SIGKILL, so none survives it.
C24_ForcedKillAfterGrace ==
  \A k \in graceSwept : "SIGKILL" \in kids[k].signals /\ Doomed(k)

\* C25: after a Ctrl-C that came once the signal handlers were set up, the
\* process has exited with code 0 and printed the cancellation notice, the
\* prompt library has not handled the keystroke, and every tracked subprocess
\* has exited or was sent a signal that ends it.
C25_GlobalCancellation ==
  cli.interrupted =>
    /\ cli.status = "exited" /\ cli.exitCode = "0"
    /\ cli.notices = {"Cancelled"}
    /\ \A k \in activeProcesses : Doomed(k)

Count(handlers, h) == Cardinality({i \in DOMAIN handlers : handlers[i] = h})

\* C26: however often setupSignalHandlers and registerCleanupHandlers are
\* called, no listener of theirs is installed twice on any event, and after a
\* first call each of its listeners is installed once.
C26_IdempotentRegistration ==
  /\ \A ev \in Events :
       \A h \in {"exitWithCancel", "ctrlC", "cleanup", "uncaught"} :
         Count(listeners[ev], h) <= 1
  /\ setupCalls.signal > 0 =>
       /\ signalHandlersSetup
       /\ Count(listeners["SIGINT"], "exitWithCancel") = 1
       /\ Count(listeners["data"], "ctrlC") = IF cli.isTTY THEN 1 ELSE 0
  /\ setupCalls.cleanup > 0 =>
       /\ cleanupRegistered
       /\ \A ev \in {"exit", "SIGINT", "SIGTERM", "SIGHUP"} :
            Count(listeners[ev], "cleanup") = 1
       /\ Count(listeners["uncaughtException"], "uncaught") = 1

\* both setup functions were called more than once, on a terminal
C26_Witness ==
  /\ setupCalls.signal > 1 /\ setupCalls.cleanup > 1
  /\ cli.isTTY
  /\ Len(listeners["SIGINT"]) = 2

AiStates ==
  {"discovery_research", "idea_refinement", "name_research", "project_config",
   "ai_content"}

\* the state after an AI-backed state on the way forward
AiSuccessor(at) ==
  CASE at = "discovery_research" -> "discovery_results"
    [] at = "idea_refinement" -> IF claudeAvailable THEN "name_research" ELSE "name"
    [] at = "name_research" -> "name"
    [] at = "project_config" -> "branding"
    [] at = "ai_content" -> "summary"

\* C27: a handler of an AI-backed state whose task failed leaves the wizard in
\* the loop, in the forward successor of the state (never in the state itself,
\* which would run the task again) and with the fallback data; after a failed
\* analysis project_config asks its prompt, and moves forward unless the user
\* goes back.
C27_NoAutomaticRetry ==
  /\ (last.at \in AiStates /\ last.outcome = "fallback") =>
       /\ pc = "loop"
       /\ wizardState = AiSuccessor(last.at)
       /\ last.at = "discovery_research" => discoveredIdeas = createFallbackIdeas
       /\ last.at = "name_research" =>
            suggestedNames = <<>> /\ foundCompetitors = <<>>
       /\ last.at = "ai_content" => ~aiContentGenerated
  /\ (last.at = "project_config" /\ ~projectAnalysis.success) =>
       /\ pc = "loop"
       /\ wizardState # "project_config"
       /\ last.outcome # "BACK" => wizardState = AiSuccessor(last.at)
       /\ projectAnalysis.projectType = "Web Application"

\* the research fell back, and later the content generation failed too
C27_Witness ==
  /\ last.at = "ai_content" /\ last.outcome = "fallback"
  /\ discoveredIdeas = createFallbackIdeas
  /\ wizardState = "summary"

\* C28: the materializer is never called twice; a run that left the loop at
\* generate has called it once, with wizardState = generate; a run still in
\* the loop or ended by a decline has not called it.
C28_MaterializerOnce ==
  /\ materializer.calls <= 1
  /\ pc \in {"git", "done", "failed"} =>
       materializer.calls = 1 /\ wizardState = "generate"
  /\ pc \in {"loop", "cancelled"} => materializer.calls = 0

C28_Witness ==
  /\ pc = "done" /\ materializer.calls = 1 /\ backs > 0

\* C29: a result of the materializer with errors does not abort the run, and
\* each of its errors is printed.
C29_PartialSuccess ==
  (materializer.calls > 0 /\ materializer.result.errors # <<>>) =>
    /\ pc # "failed"
    /\ materializer.reported = materializer.result.errors

\* C30: the create command ends with exit code 0 after a success or a decline
\* at the summary, and with another exit code after a failed generation.
C30_ExitCodes ==
  cli.status = "exited" =>
    /\ pc \in {"done", "cancelled"} => cli.exitCode = "0"
    /\ pc = "failed" => cli.exitCode # "0"

-----------------------------------------------------------------------------
(* Exceptions, the flag of ai_content, idea mode and the final context *)

\* C31: an exception thrown inside a state handler never leaves the wizard
\* loop uncaught: a failed AI content call is followed by the summary state
\* with the loop still running, and no handler ends the action by a throw.
C31_ExceptionsCaughtAtLoop ==
  /\ (last.at = "ai_content" /\ last.outcome = "fallback") =>
       (pc = "loop" /\ wizardState = "summary")
  /\ last.outcome # "throw"
  /\ pc # "crashed"

\* C32: withRetry returns the result of the first successful call of fn and
\* calls fn no more after it: once resolved, the value is that of the last
\* call made, and after k failures fn was called exactly k+1 times.
C32_FirstSuccessReturns ==
  retry.promise.settled = "resolved" =>
    /\ retry.at = "done"
    /\ retry.promise.call = retry.calls
    /\ retry.calls = retry.failures + 1
    /\ retry.failures <= retry.maxRetries

\* the test's case: two failures, then a success, with maxRetries 3
C32_Witness ==
  /\ retry.promise.settled = "resolved"
  /\ retry.maxRetries = 3 /\ retry.failures = 2 /\ retry.calls = 3

\* C33: withRetry never calls fn more than maxRetries+1 times, and when every
\* call fails with an error that shouldRetry accepts, it rejects after
\* exactly maxRetries+1 calls with the error of the last call.
C33_StopsAfterMaxRetries ==
  /\ retry.calls <= retry.maxRetries + 1
  /\ Len(retry.slept) <= retry.maxRetries
  /\ (/\ retry.promise.settled = "rejected"
      /\ shouldRetry(retry.shouldRetry, retry.promise.error)) =>
       /\ retry.at = "done"
       /\ retry.calls = retry.maxRetries + 1
       /\ retry.failures = retry.calls
       /\ retry.promise.error = Failure(retry.calls, retry.promise.error.kind)

C33_Witness ==
  /\ retry.promise.settled = "rejected"
  /\ retry.shouldRetry = "always"
  /\ retry.maxRetries = 2 /\ retry.calls = 3

\* C34: when shouldRetry returns false for a failure, withRetry rejects with
\* that error at once: no delay follows the failure and fn is not called
\* again, so a refusal of the first failure leaves exactly one call.
C34_RespectsShouldRetry ==
  (/\ retry.lastError # NoFailure
   /\ ~shouldRetry(retry.shouldRetry, retry.lastError)) =>
    /\ retry.at = "done"
    /\ retry.promise = Thrown(retry.lastError)
    /\ retry.calls = retry.lastError.call
    /\ retry.failures = retry.calls
    /\ Len(retry.slept) = retry.calls - 1
    /\ (retry.shouldRetry = "never" => retry.calls = 1)

C34_Witness ==
  /\ retry.promise.settled = "rejected"
  /\ retry.shouldRetry = "never"
  /\ retry.maxRetries = 3 /\ retry.calls = 1

\* C35: on every entry to ai_content the AI-content-generated flag is false:
\* the flag is true only in the states after ai_content, and every visit to
\* ai_content invokes the AI content call exactly when AI is available and
\* --skip-ai is unset.
C35_FlagFalseOnEntry ==
  /\ (pc = "loop" /\ wizardState = "ai_content") => ~aiContentGenerated
  /\ aiContentGenerated => wizardState \in {"summary", "project_location", "generate"}
  /\ last.at = "ai_content" => (last.aiCalled <=> (claudeAvailable /\ ~optSkipAi))

\* ai_content entered again after a call and a BACK from summary
C35_Witness ==
  /\ pc = "loop" /\ wizardState = "ai_content"
  /\ aiCalls > 0 /\ summaryBacks > 0 /\ last.at = "branding"

\* C36: the recorded idea mode matches the path the wizard is on: in
\* description, idea_refinement and name_research it is has_idea, in the
\* discovery states it is discover or validate, and in discovery_rough_idea
\* it is validate.
C36_IdeaModeMatchesPath ==
  pc = "loop" =>
    /\ wizardState \in {"description", "idea_refinement", "name_research"} =>
         ideaMode = "has_idea"
    /\ wizardState \in {"discovery_sector", "discovery_research", "discovery_results",
                         "discovery_select", "discovery_confirm"} =>
         ideaMode \in {"discover", "validate"}
    /\ wizardState = "discovery_rough_idea" => ideaMode = "validate"

\* back in a discovery state from the name state, in validate mode
C36_Witness ==
  /\ pc = "loop" /\ wizardState = "discovery_results"
  /\ last.at = "name" /\ last.outcome = "BACK" /\ ideaMode = "validate"

\* C38: when discovery_research runs in discover mode, the options it passes
\* to idea discovery hold no rough idea.
C38_RoughIdeaOnlyInValidate ==
  (pc = "loop" /\ wizardState = "discovery_research" /\ ideaMode = "discover") =>
    DiscoveryOptions(discoverySector, roughIdea).roughIdea = "undefined"

\* C37: the context handed to the materializer is built from the final
\* answers: when the loop has ended at generate, context.name is the project
\* name, context.description is the current description, and the context is
\* not the placeholder created at startup.
C37_ContextFromFinalAnswers ==
  wizardState = "generate" =>
    /\ context.name = projectName
    /\ context.description = description
    /\ context.name # <<"t", "e", "m", "p">>
    /\ projectName # <<>>

\* the materializer ran after the user went back and forth
C37_Witness ==
  /\ wizardState = "generate" /\ materializer.calls = 1
  /\ backs >= 2 /\ nameArg # <<>>

\* C39: once a call of the streaming task runner has settled, onProgress is
\* not invoked again for it, neither by the status timer nor by a chunk of
\* subprocess output.
C39_NoProgressAfterSettlement == stream.late = 0

\* C40: while the CLI runs, the registry holds exactly the children passed to
\* trackProcess that have not exited, not emitted 'error' and not been
\* untracked, and getActiveProcessCount is their number, also after
\* killAllProcesses has run from a signal handler.
C40_RegistryConsistency ==
  cli.status = "running" =>
    LET live == {k \in Kids : kids[k].status = "running" /\ ~kids[k].untracked}
    IN  /\ activeProcesses = live
        /\ getActiveProcessCount = Cardinality(live)

\* killAllProcesses ran from a signal handler, one child exited on its
\* SIGTERM and left the registry, another one is still tracked
C40_Witness ==
  /\ cli.status = "running" /\ cleanupRegistered
  /\ \E k, j \in Kids :
       /\ kids[k].status = "exited" /\ "SIGTERM" \in kids[k].signals
       /\ k \notin activeProcesses
       /\ j \in activeProcesses /\ kids[j].killed

====
